---- MODULE Spec2Model ----
(***************************************************************************)
(* State-machine model of the MathType notebook controller                 *)
(* (src/app/components/MathNotebook/MathNotebook.tsx): the line store, the  *)
(* section partitioner, the context extractor and the reconciliation of    *)
(* reasoning-check and hint responses onto the line-keyed maps, with       *)
(* importJSON on arbitrary files and the two API routes                    *)
(* (/api/check-reasoning, /api/hint) as functions of key, body and answer, *)
(* the prompt builder of the check route, the save effect on local         *)
(* storage, minimal mode, and the file reads of image lines.               *)
(*                                                                         *)
(* Indices are 0-based as in the source; At(ls, i) reads ls[i] of the       *)
(* source.  A line content is a sequence of tokens, ids are strings.        *)
(***************************************************************************)
EXTENDS Integers, Sequences, FiniteSets, TLC

VARIABLES
    lines,           \* useState<MathLine[]>            (MathNotebook.tsx:73)
    feedbackMap,     \* useState<Map<string,LLMFeedback>> (MathNotebook.tsx:85)
    hintMap,         \* useState<Map<string,string>>    (MathNotebook.tsx:92)
    checkingLineId,  \* useState<string|null>           (MathNotebook.tsx:89)
    isLoaded,        \* useState(false)                 (MathNotebook.tsx:74)
    templateSlug,    \* prop: a template slug is given  (MathNotebook.tsx:64)
    pendingChecks,   \* closures of handleCheckReasoning awaiting fetch
    loadingHintLineId, \* useState<string|null>         (MathNotebook.tsx:94)
    pendingHints,    \* closures of handleGetHint awaiting fetch
    served,          \* the last request an API route handled, with its answer
    toggleRun,       \* the latest run of toggles of one line, and the state before it
    importedFile,    \* the file the handler that ran last was given, if it was importJSON
    nextId,          \* number of ids generateId has handed out, plus one
    lastOp,          \* the handler that ran last, with its arguments
    events,          \* number of handlers and callbacks run so far
    bounds,          \* result of the last getSectionBounds evaluation
    section,         \* result of the last getSectionLines evaluation
    storage,         \* localStorage item STORAGE_KEY, parsed   (MathNotebook.tsx:165, 202)
    minimal,         \* prop: minimal mode, initialLines given  (MathNotebook.tsx:66-68)
    focusState,      \* useState<{index, position}|null>        (MathNotebook.tsx:79)
    pendingReads,    \* FileReader loads of loadImageFile under way (ImageLine.tsx:38)
    prompt           \* result of the last buildUserMessage evaluation

vars == <<lines, feedbackMap, hintMap, checkingLineId, isLoaded, templateSlug,
          pendingChecks, loadingHintLineId, pendingHints, served, toggleRun, importedFile,
          nextId, lastOp, events, bounds, section,
          storage, minimal, focusState, pendingReads, prompt>>

----------------------------------------------------------------------------
(* Bounds of the model *)

\* most lines the document may hold
MaxLines == 3
\* most ids generateId hands out in one behaviour
MaxId == 6
\* most reasoning checks awaiting their response at once
MaxPending == 2
\* most handlers and callbacks run in one behaviour
MaxEvents == 5

----------------------------------------------------------------------------
(* Values *)

NoId == "null"
None == [status |-> "none", latex |-> "none"]
NoBounds == [start |-> -1, end |-> -1]
NoSection ==
    [problemLines |-> <<>>, userLines |-> <<>>, sectionStart |-> -1,
     sectionEnd |-> -1, hints |-> <<>>, feedback |-> <<>>]

\* no toggle has run since the last other handler
\* no request was handled yet
NoServed == [route |-> "none"]
\* the handler that ran last was given no file
NoFile ==
    [lines |-> [t |-> "none", v |-> <<>>],
     hints |-> [t |-> "undefined", v |-> <<>>],
     feedback |-> [t |-> "undefined", v |-> <<>>]]
NoRun == [index |-> -1, count |-> 0, isProblem |-> FALSE, feedback |-> <<>>]

\* the five values of LineMode accepted by the notebook
LineMode == {"math", "text", "header", "image", "break"}

\* crypto.randomUUID(): the n-th call returns a value never returned before
Uuids == <<"u1", "u2", "u3", "u4", "u5", "u6", "u7", "u8", "u9", "u10", "u11", "u12">>
generateId(n) == Uuids[n]

EmptyMap == [k \in {} |-> None]
MapSet(m, k, v) == [x \in (DOMAIN m) \cup {k} |-> IF x = k THEN v ELSE m[x]]
MapDelete(m, k) == [x \in (DOMAIN m) \ {k} |-> m[x]]

At(ls, i) == ls[i + 1]
InRange(ls, i) == i >= 0 /\ i < Len(ls)
\* Array.prototype.slice(a, b) for 0 <= a, b
Slice(ls, a, b) ==
    LET hi == IF b > Len(ls) THEN Len(ls) ELSE b
    IN  IF a >= hi THEN <<>> ELSE SubSeq(ls, a + 1, hi)
Indices(ls) == 0 .. (Len(ls) - 1)
Ids(ls) == {ls[k].id : k \in 1 .. Len(ls)}

MathLine(id, content, mode, isProblem) ==
    [id |-> id, content |-> content, mode |-> mode, isProblem |-> isProblem]

\* the replacement line created in math mode, the mode the notebook falls back to elsewhere
EmptyTextLine_Math(id) == MathLine(id, <<>>, "math", FALSE)
EmptyTextLine(id) == MathLine(id, <<>>, "text", FALSE)

createInitialLines(n) ==
    << MathLine(generateId(n), <<"My Math Notes">>, "header", FALSE),
       MathLine(generateId(n + 1), <<"Here is a note">>, "text", FALSE),
       MathLine(generateId(n + 2),
                <<"\\begin{gather}", "x=5", "\\\\", "y=3", "\\\\", "x+y=8", "\\end{gather}">>,
                "math", FALSE) >>

\* JSON values as JSON.parse returns them: a type tag and a value
JStr(v) == [t |-> "string", v |-> v]
JNoStr == [t |-> "undefined", v |-> ""]
JNumId == [t |-> "number", v |-> "7"]
JText(c) == [t |-> "string", v |-> c]
JNoText == [t |-> "undefined", v |-> <<>>]
JBool(b) == [t |-> "boolean", v |-> b]
JNoBool == [t |-> "undefined", v |-> FALSE]
JArray(a) == [t |-> "array", v |-> a]
JNoArray == [t |-> "undefined", v |-> <<>>]
JObject(m) == [t |-> "object", v |-> m]
JNoObject == [t |-> "undefined", v |-> EmptyMap]

RawLine(id, content, mode, isProblem) ==
    [id |-> id, content |-> content, mode |-> mode, isProblem |-> isProblem]
Json(ls, hints, feedback) == [lines |-> ls, hints |-> hints, feedback |-> feedback]

\* JSON.parse(exportJSON()): what JSON.stringify writes of the lines and of
\* Object.fromEntries of the two maps, read back
exportJSON(ls, hm, fm) ==
    Json(JArray([k \in 1 .. Len(ls) |->
                    RawLine(JStr(ls[k].id), JText(ls[k].content),
                            JStr(ls[k].mode), JBool(ls[k].isProblem))]),
         JObject(hm), JObject(fm))

\* focusState null
NoFocus == [index |-> -1, position |-> "none"]
\* no buildUserMessage evaluation yet
NoPrompt == [userLines |-> <<>>, parts |-> <<>>]

----------------------------------------------------------------------------
(* Section partitioner and context extractor *)

RECURSIVE ScanBack(_, _)
\* for (let i = lineIndex; i >= 0; i--) if (lines[i].mode === "break") { start = i + 1; break; }
ScanBack(ls, i) ==
    IF i < 0 THEN 0
    ELSE IF At(ls, i).mode = "break" THEN i + 1
    ELSE ScanBack(ls, i - 1)

RECURSIVE ScanForward_PastBreak(_, _)
\* the forward scan with end = i + 1: the break is taken into the section
ScanForward_PastBreak(ls, i) ==
    IF i >= Len(ls) THEN Len(ls)
    ELSE IF At(ls, i).mode = "break" THEN i + 1
    ELSE ScanForward_PastBreak(ls, i + 1)

RECURSIVE ScanForward(_, _)
\* for (let i = lineIndex + 1; i < lines.length; i++) if (lines[i].mode === "break") { end = i; break; }
ScanForward(ls, i) ==
    IF i >= Len(ls) THEN Len(ls)
    ELSE IF At(ls, i).mode = "break" THEN i
    ELSE ScanForward(ls, i + 1)

getSectionBounds(ls, lineIndex) ==
    [start |-> ScanBack(ls, lineIndex), end |-> ScanForward(ls, lineIndex + 1)]

IsProblemLine(l) == l.isProblem
IsUserLine(l) == ~l.isProblem /\ l.mode # "header" /\ l.mode # "break"
ProblemEntry(l) == [mode |-> l.mode, content |-> l.content]
UserEntry(l) == [mode |-> l.mode, content |-> l.content, lineId |-> l.id]

RECURSIVE FilterMap(_, _, _)
\* relevantLines.filter(keep).map(entry) for the two filters of getSectionLines
FilterMap(ls, kind, acc) ==
    IF ls = <<>> THEN acc
    ELSE LET l == Head(ls)
         IN  IF kind = "problem"
             THEN FilterMap(Tail(ls), kind,
                            IF IsProblemLine(l) THEN Append(acc, ProblemEntry(l)) ELSE acc)
             ELSE FilterMap(Tail(ls), kind,
                            IF IsUserLine(l) THEN Append(acc, UserEntry(l)) ELSE acc)

\* for (const line of relevantLines) { const v = map.get(line.id); if (v) out[line.id] = v; }
Collect(ls, m) == [k \in Ids(ls) \cap DOMAIN m |-> m[k]]

\* getSectionLines slicing to the section end instead of upToIndex + 1
getSectionLines_WholeSection(ls, hm, fm, upToIndex) ==
    LET b == getSectionBounds(ls, upToIndex)
        relevantLines == Slice(ls, b.start, b.end)
    IN  [problemLines |-> FilterMap(relevantLines, "problem", <<>>),
         userLines |-> FilterMap(relevantLines, "user", <<>>),
         sectionStart |-> b.start,
         sectionEnd |-> b.end,
         hints |-> Collect(relevantLines, hm),
         feedback |-> Collect(relevantLines, fm)]

getSectionLines(ls, hm, fm, upToIndex) ==
    LET b == getSectionBounds(ls, upToIndex)
        relevantLines == Slice(ls, b.start, upToIndex + 1)
    IN  [problemLines |-> FilterMap(relevantLines, "problem", <<>>),
         userLines |-> FilterMap(relevantLines, "user", <<>>),
         sectionStart |-> b.start,
         sectionEnd |-> b.end,
         hints |-> Collect(relevantLines, hm),
         feedback |-> Collect(relevantLines, fm)]

----------------------------------------------------------------------------
(* Line store handlers *)

\* a handler invocation: its name, its index argument, lines.length as it ran
Op(name, index) == [name |-> name, index |-> index, len |-> Len(lines)]

\* one more handler or callback runs; it ends a run of toggles
Dispatch ==
    /\ events < MaxEvents
    /\ events' = events + 1
    /\ toggleRun' = NoRun
    /\ importedFile' = NoFile
    /\ focusState' = NoFocus

\* one more handler runs, and it ends with setFocusState({ index, position })
DispatchFocus(index, position) ==
    /\ events < MaxEvents
    /\ events' = events + 1
    /\ toggleRun' = NoRun
    /\ importedFile' = NoFile
    /\ focusState' = [index |-> index, position |-> position]

\* one more import runs, of the file data
DispatchImport(data) ==
    /\ events < MaxEvents
    /\ events' = events + 1
    /\ toggleRun' = NoRun
    /\ importedFile' = data
    /\ focusState' = NoFocus

\* one more toggle runs: it extends the run of toggles of the line at index,
\* or starts one that remembers the flag and the feedback map before it
DispatchToggle(index) ==
    /\ events < MaxEvents
    /\ events' = events + 1
    /\ toggleRun' = IF toggleRun.index = index
                    THEN [toggleRun EXCEPT !.count = @ + 1]
                    ELSE [index |-> index, count |-> 1,
                          isProblem |-> lines[index + 1].isProblem,
                          feedback |-> feedbackMap]
    /\ importedFile' = NoFile
    /\ focusState' = NoFocus

\* the save effect with [lines] as its dependency list
Save_WhenLinesChange ==
    /\ minimal' = minimal
    /\ storage' = IF isLoaded' /\ ~minimal /\ (lines' # lines \/ ~isLoaded)
                  THEN exportJSON(lines', hintMap', feedbackMap')
                  ELSE storage

\* the save effect: if (isLoaded && !minimal) localStorage.setItem(STORAGE_KEY,
\* JSON.stringify({ lines, hints, feedback })), run after the render that
\* follows a handler; minimal is a prop and never changes
Save ==
    /\ minimal' = minimal
    /\ storage' = IF isLoaded' /\ ~minimal
                  THEN exportJSON(lines', hintMap', feedbackMap')
                  ELSE storage

\* the notebook is rendered and its handlers can be invoked
\* (not while the template is loading; in minimal mode isLoaded is never set)
Ready == isLoaded \/ minimal

ReplaceAt(ls, i, l) == [ls EXCEPT ![i + 1] = l]

\* onChange(index, value) of a text, header or math line
handleChange(index, content) ==
    /\ Ready
    /\ InRange(lines, index)
    /\ At(lines, index).mode \in {"text", "header", "math"}
    /\ lines' = ReplaceAt(lines, index, [At(lines, index) EXCEPT !.content = content])
    /\ Dispatch
    /\ lastOp' = Op("handleChange", index)
    /\ UNCHANGED <<feedbackMap, hintMap, checkingLineId, isLoaded, templateSlug,
                   pendingChecks, nextId, bounds, section,
                   loadingHintLineId, pendingHints, served>>
    /\ UNCHANGED <<pendingReads, prompt>>
    /\ Save

IsSpace(tok) == tok \in {"\n", " "}
RECURSIVE TrimLeft(_)
TrimLeft(c) == IF c # <<>> /\ IsSpace(Head(c)) THEN TrimLeft(Tail(c)) ELSE c
RECURSIVE TrimRight(_)
TrimRight(c) ==
    IF c # <<>> /\ IsSpace(c[Len(c)]) THEN TrimRight(SubSeq(c, 1, Len(c) - 1)) ELSE c
RECURSIVE ReplaceAll(_, _, _)
\* String.prototype.replace(/tok/g, by); by = <<>> removes the token
ReplaceAll(c, tok, by) ==
    IF c = <<>> THEN <<>>
    ELSE (IF Head(c) = tok THEN by ELSE <<Head(c)>>) \o ReplaceAll(Tail(c), tok, by)
Includes(c, tok) == \E k \in 1 .. Len(c) : c[k] = tok

\* content with the gather environment stripped, as on a switch to text mode
StripGather(content) ==
    TrimRight(TrimLeft(
        ReplaceAll(ReplaceAll(ReplaceAll(content, "\\begin{gather}", <<>>),
                              "\\end{gather}", <<>>),
                   "\\\\", <<"\n">>)))

\* the mode switches the line components offer (Tab, "$", marker click)
ModeTargets(l) ==
    CASE l.mode = "math" -> {"text"}
      [] l.mode = "text" -> {"math", "header"}
      [] l.mode = "header" -> {"math", "image"}
      [] l.mode = "image" -> IF l.content = <<>> THEN {"math"} ELSE {}
      [] l.mode = "break" -> {"math"}

handleModeChange(index, mode) ==
    /\ Ready
    /\ InRange(lines, index)
    /\ mode \in ModeTargets(At(lines, index))
    /\ LET old == At(lines, index)
           content == IF mode = "text" /\ Includes(old.content, "\\begin{gather}")
                      THEN StripGather(old.content)
                      ELSE old.content
       IN  lines' = ReplaceAt(lines, index, [old EXCEPT !.content = content, !.mode = mode])
    /\ DispatchFocus(index, "end")
    /\ lastOp' = Op("handleModeChange", index)
    /\ UNCHANGED <<feedbackMap, hintMap, checkingLineId, isLoaded, templateSlug,
                   pendingChecks, nextId, bounds, section,
                   loadingHintLineId, pendingHints, served>>
    /\ UNCHANGED <<pendingReads, prompt>>
    /\ Save

\* lines[index]?.mode || "math"
CurrentMode(l) == IF l.mode = "undefined" THEN "math" ELSE l.mode

\* the new line inheriting the mode of the current line whatever it is
NewLineMode_Inherit(currentMode) == currentMode
\* (currentMode === "header" || "image" || "break") ? "text" : currentMode
NewLineMode(currentMode) ==
    IF currentMode \in {"header", "image", "break"} THEN "text" ELSE currentMode

handleEnterPress(index) ==
    /\ Ready
    /\ InRange(lines, index)
    /\ Len(lines) < MaxLines
    /\ nextId <= MaxId
    /\ LET newLine == MathLine(generateId(nextId), <<>>,
                               NewLineMode(CurrentMode(At(lines, index))), FALSE)
       IN  lines' = Slice(lines, 0, index + 1) \o <<newLine>> \o Slice(lines, index + 1, Len(lines))
    /\ nextId' = nextId + 1
    /\ DispatchFocus(index + 1, "start")
    /\ lastOp' = Op("handleEnterPress", index)
    /\ UNCHANGED <<feedbackMap, hintMap, checkingLineId, isLoaded, templateSlug,
                   pendingChecks, bounds, section,
                   loadingHintLineId, pendingHints, served>>
    /\ UNCHANGED <<pendingReads, prompt>>
    /\ Save

\* the clipboard texts a math line hands to onMultiLinePaste (more than one line)
Pastes == {<<<<"p">>, <<"q">>>>}

handleMultiLinePaste(index, pastedLines) ==
    /\ Ready
    /\ InRange(lines, index)
    /\ At(lines, index).mode = "math"
    /\ Len(pastedLines) # 0
    /\ Len(lines) - 1 + Len(pastedLines) <= MaxLines
    /\ nextId + Len(pastedLines) - 1 <= MaxId
    /\ LET currentMode == At(lines, index).mode
           newLines == [k \in 1 .. Len(pastedLines) |->
                           MathLine(generateId(nextId + k - 1), pastedLines[k], currentMode, FALSE)]
       IN  lines' = Slice(lines, 0, index) \o newLines \o Slice(lines, index + 1, Len(lines))
    /\ nextId' = nextId + Len(pastedLines)
    /\ DispatchFocus(index + Len(pastedLines) - 1, "end")
    /\ lastOp' = Op("handleMultiLinePaste", index)
    /\ UNCHANGED <<feedbackMap, hintMap, checkingLineId, isLoaded, templateSlug,
                   pendingChecks, bounds, section,
                   loadingHintLineId, pendingHints, served>>
    /\ UNCHANGED <<pendingReads, prompt>>
    /\ Save

\* what handleDeleteLine leaves when lines.length is not 1
RemoveAt(ls, index) == Slice(ls, 0, index) \o Slice(ls, index + 1, Len(ls))

\* handleDeleteLine without its lines.length === 1 branch
handleDeleteLine_NoReplace(index) ==
    /\ Ready
    /\ InRange(lines, index)
    /\ lines' = RemoveAt(lines, index)
    /\ DispatchFocus(IF index - 1 > 0 THEN index - 1 ELSE 0, "end")
    /\ lastOp' = Op("handleDeleteLine", index)
    /\ UNCHANGED <<feedbackMap, hintMap, checkingLineId, isLoaded, templateSlug,
                   pendingChecks, nextId, bounds, section,
                   loadingHintLineId, pendingHints, served>>
    /\ UNCHANGED <<pendingReads, prompt>>
    /\ Save

handleDeleteLine(index) ==
    /\ Ready
    /\ InRange(lines, index)
    /\ IF Len(lines) = 1
       THEN /\ nextId <= MaxId
            /\ lines' = <<EmptyTextLine(generateId(nextId))>>
            /\ nextId' = nextId + 1
       ELSE /\ lines' = RemoveAt(lines, index)
            /\ nextId' = nextId
    /\ (IF Len(lines) = 1
        THEN DispatchFocus(0, "start")
        ELSE DispatchFocus(IF index - 1 > 0 THEN index - 1 ELSE 0, "end"))
    /\ lastOp' = Op("handleDeleteLine", index)
    /\ UNCHANGED <<feedbackMap, hintMap, checkingLineId, isLoaded, templateSlug,
                   pendingChecks, bounds, section,
                   loadingHintLineId, pendingHints, served>>
    /\ UNCHANGED <<pendingReads, prompt>>
    /\ Save

\* the toggle marking the line as problem context whatever it was
ToggleFlag_Mark(l) == [l EXCEPT !.isProblem = TRUE]
\* { ...newLines[index], isProblem: !newLines[index].isProblem }
ToggleFlag(l) == [l EXCEPT !.isProblem = ~l.isProblem]

\* the toggle dropping the whole feedback map
handleToggleProblem_ClearAll(index) ==
    /\ Ready
    /\ InRange(lines, index)
    /\ At(lines, index).mode \in {"math", "text", "image"}
    /\ lines' = ReplaceAt(lines, index, ToggleFlag(At(lines, index)))
    /\ feedbackMap' = EmptyMap
    /\ DispatchToggle(index)
    /\ lastOp' = Op("handleToggleProblem", index)
    /\ UNCHANGED <<hintMap, checkingLineId, isLoaded, templateSlug,
                   pendingChecks, nextId, bounds, section,
                   loadingHintLineId, pendingHints, served>>
    /\ UNCHANGED <<pendingReads, prompt>>
    /\ Save

handleToggleProblem(index) ==
    /\ Ready
    /\ InRange(lines, index)
    /\ At(lines, index).mode \in {"math", "text", "image"}
    /\ lines' = ReplaceAt(lines, index, ToggleFlag(At(lines, index)))
    /\ feedbackMap' = MapDelete(feedbackMap, At(lines, index).id)
    /\ DispatchToggle(index)
    /\ lastOp' = Op("handleToggleProblem", index)
    /\ UNCHANGED <<hintMap, checkingLineId, isLoaded, templateSlug,
                   pendingChecks, nextId, bounds, section,
                   loadingHintLineId, pendingHints, served>>
    /\ UNCHANGED <<pendingReads, prompt>>
    /\ Save

----------------------------------------------------------------------------
(* Reasoning check: start, response, failure *)

\* the line components that render a check button offer it on work lines only,
\* disabled while the line is the one being checked
CheckOffered(index) ==
    /\ InRange(lines, index)
    /\ At(lines, index).mode \in {"math", "text", "image"}
    /\ ~At(lines, index).isProblem
    /\ checkingLineId # At(lines, index).id

\* what the closure of handleCheckReasoning reads after the await
CheckCall(ls, upToIndex, sec) ==
    [targetId |-> At(ls, upToIndex).id,
     lineIds |-> [k \in 1 .. Len(ls) |-> ls[k].id],
     sectionStart |-> sec.sectionStart,
     sectionEnd |-> sec.sectionEnd,
     userLineIds |-> [k \in 1 .. Len(sec.userLines) |-> sec.userLines[k].lineId]]

\* handleCheckReasoning clearing the feedback of the section before the await
handleCheckReasoning_ClearFirst(upToIndex) ==
    /\ Ready
    /\ InRange(lines, upToIndex)
    /\ Len(pendingChecks) < MaxPending
    /\ LET sec == getSectionLines(lines, hintMap, feedbackMap, upToIndex)
       IN  /\ feedbackMap' = [id \in DOMAIN feedbackMap \
                                    Ids(Slice(lines, sec.sectionStart, sec.sectionEnd))
                                |-> feedbackMap[id]]
           /\ IF Len(sec.userLines) = 0
              THEN /\ checkingLineId' = NoId
                   /\ pendingChecks' = pendingChecks
              ELSE /\ checkingLineId' = At(lines, upToIndex).id
                   /\ pendingChecks' = Append(pendingChecks, CheckCall(lines, upToIndex, sec))
    /\ Dispatch
    /\ lastOp' = Op("handleCheckReasoning", upToIndex)
    /\ UNCHANGED <<lines, hintMap, isLoaded, templateSlug, nextId, bounds, section,
                   loadingHintLineId, pendingHints, served>>
    /\ UNCHANGED <<pendingReads, prompt>>
    /\ Save

handleCheckReasoning(upToIndex) ==
    /\ Ready
    /\ InRange(lines, upToIndex)
    /\ Len(pendingChecks) < MaxPending
    /\ LET sec == getSectionLines(lines, hintMap, feedbackMap, upToIndex)
       IN  IF Len(sec.userLines) = 0
           THEN /\ checkingLineId' = NoId
                /\ pendingChecks' = pendingChecks
           ELSE /\ checkingLineId' = At(lines, upToIndex).id
                /\ pendingChecks' = Append(pendingChecks, CheckCall(lines, upToIndex, sec))
    /\ Dispatch
    /\ lastOp' = Op("handleCheckReasoning", upToIndex)
    /\ UNCHANGED <<lines, feedbackMap, hintMap, isLoaded, templateSlug, nextId, bounds, section,
                   loadingHintLineId, pendingHints, served>>
    /\ UNCHANGED <<pendingReads, prompt>>
    /\ Save

Feedback(status, latex) == [status |-> status, latex |-> latex]
Issue(stepIndex, latex) == [stepIndex |-> stepIndex, latex |-> latex]

\* bodies of a 200 answer of /api/check-reasoning
OkData == [status |-> "ok", latex |-> "\\text{All steps are valid.}", issues |-> <<>>]
IssueLists ==
    {<<>>}
    \cup {<<Issue(s, "m1")>> : s \in 0 .. MaxLines + 1}
    \cup {<<Issue(s, "m1"), Issue(t, "m2")>> : s \in 1 .. 2, t \in 1 .. 2}
IssueData == {[status |-> "issue", latex |-> "none", issues |-> is] : is \in IssueLists}
CheckData == {OkData} \cup IssueData

\* the clearing loop stopping at the first line of the section
ClearSection_FirstOnly(m, lineIds, i, sectionEnd) ==
    IF i >= sectionEnd THEN m ELSE MapDelete(m, At(lineIds, i))

RECURSIVE ClearSection(_, _, _, _)
\* for (let i = sectionStart; i < sectionEnd; i++) next.delete(lines[i].id)
ClearSection(m, lineIds, i, sectionEnd) ==
    IF i >= sectionEnd THEN m
    ELSE ClearSection(MapDelete(m, At(lineIds, i)), lineIds, i + 1, sectionEnd)

RECURSIVE SetIssues_ZeroBased(_, _, _)
\* the step index used as a 0-based index: userLines[issue.stepIndex]
SetIssues_ZeroBased(m, userLineIds, issues) ==
    IF issues = <<>> THEN m
    ELSE LET issue == Head(issues)
             k == issue.stepIndex
         IN  SetIssues_ZeroBased(IF InRange(userLineIds, k)
                                 THEN MapSet(m, At(userLineIds, k), Feedback("issue", issue.latex))
                                 ELSE m,
                                 userLineIds, Tail(issues))

RECURSIVE SetIssues(_, _, _)
\* for (const issue of data.issues) { const id = userLines[issue.stepIndex - 1]?.lineId; if (id) next.set(id, ...) }
SetIssues(m, userLineIds, issues) ==
    IF issues = <<>> THEN m
    ELSE LET issue == Head(issues)
             k == issue.stepIndex - 1
         IN  SetIssues(IF InRange(userLineIds, k)
                       THEN MapSet(m, At(userLineIds, k), Feedback("issue", issue.latex))
                       ELSE m,
                       userLineIds, Tail(issues))

\* the response resolved through the document as it is when it arrives: the
\* verdict goes to the line now at the clicked index, the issues to the work
\* lines now before it
ApplyCheck_ByIndex(prev, call, data) ==
    LET cleared == ClearSection(prev, call.lineIds, call.sectionStart, call.sectionEnd)
        clicked == CHOOSE i \in 0 .. Len(call.lineIds) - 1 : At(call.lineIds, i) = call.targetId
        upToIndex == IF clicked < Len(lines) THEN clicked ELSE Len(lines) - 1
        now == getSectionLines(lines, hintMap, prev, upToIndex).userLines
    IN  IF data.status = "ok"
        THEN MapSet(cleared, At(lines, upToIndex).id, Feedback(data.status, data.latex))
        ELSE IF data.status = "issue" /\ Len(data.issues) > 0
        THEN SetIssues(cleared, [k \in 1 .. Len(now) |-> now[k].lineId], data.issues)
        ELSE cleared

\* the updater passed to setFeedbackMap once the response body is read
ApplyCheck(prev, call, data) ==
    LET cleared == ClearSection(prev, call.lineIds, call.sectionStart, call.sectionEnd)
    IN  IF data.status = "ok"
        THEN MapSet(cleared, call.targetId, Feedback(data.status, data.latex))
        ELSE IF data.status = "issue" /\ Len(data.issues) > 0
        THEN SetIssues(cleared, call.userLineIds, data.issues)
        ELSE cleared

DropAt(q, k) == SubSeq(q, 1, k - 1) \o SubSeq(q, k + 1, Len(q))

\* response.ok: the body is applied, then finally resets the checking marker
CheckResponse(k, data) ==
    /\ k \in 1 .. Len(pendingChecks)
    /\ feedbackMap' = ApplyCheck(feedbackMap, pendingChecks[k], data)
    /\ checkingLineId' = NoId
    /\ pendingChecks' = DropAt(pendingChecks, k)
    /\ Dispatch
    /\ lastOp' = Op("checkResponse", k)
    /\ UNCHANGED <<lines, hintMap, isLoaded, templateSlug, nextId, bounds, section,
                   loadingHintLineId, pendingHints, served>>
    /\ UNCHANGED <<pendingReads, prompt>>
    /\ Save

\* the failure path without the finally block: the checking marker is kept
CheckFailed_KeepMarker(k) ==
    /\ k \in 1 .. Len(pendingChecks)
    /\ pendingChecks' = DropAt(pendingChecks, k)
    /\ Dispatch
    /\ lastOp' = Op("checkFailed", k)
    /\ UNCHANGED <<lines, feedbackMap, hintMap, checkingLineId, isLoaded, templateSlug, nextId,
                   bounds, section, loadingHintLineId, pendingHints, served>>
    /\ UNCHANGED <<pendingReads, prompt>>
    /\ Save

\* !response.ok, or fetch / response.json() throws
CheckFailed(k) ==
    /\ k \in 1 .. Len(pendingChecks)
    /\ checkingLineId' = NoId
    /\ pendingChecks' = DropAt(pendingChecks, k)
    /\ Dispatch
    /\ lastOp' = Op("checkFailed", k)
    /\ UNCHANGED <<lines, feedbackMap, hintMap, isLoaded, templateSlug, nextId, bounds, section,
                   loadingHintLineId, pendingHints, served>>
    /\ UNCHANGED <<pendingReads, prompt>>
    /\ Save

handleDismissFeedback(index) ==
    /\ Ready
    /\ InRange(lines, index)
    /\ At(lines, index).id \in DOMAIN feedbackMap
    /\ feedbackMap' = MapDelete(feedbackMap, At(lines, index).id)
    /\ Dispatch
    /\ lastOp' = Op("handleDismissFeedback", index)
    /\ UNCHANGED <<lines, hintMap, checkingLineId, isLoaded, templateSlug,
                   pendingChecks, nextId, bounds, section,
                   loadingHintLineId, pendingHints, served>>
    /\ UNCHANGED <<pendingReads, prompt>>
    /\ Save

----------------------------------------------------------------------------
(* Hint: start, response, failure *)

\* the math line renders the hint button on work lines only, disabled while
\* the hint of that line is loading
HintOffered(index) ==
    /\ InRange(lines, index)
    /\ At(lines, index).mode = "math"
    /\ ~At(lines, index).isProblem
    /\ loadingHintLineId # At(lines, index).id

\* what the closure of handleGetHint reads after the await, and the body it sent
HintCall(ls, atIndex, sec) ==
    [targetId |-> At(ls, atIndex).id,
     problemLines |-> sec.problemLines,
     userLines |-> sec.userLines]

handleGetHint(atIndex) ==
    /\ Ready
    /\ InRange(lines, atIndex)
    /\ Len(pendingHints) < MaxPending
    /\ loadingHintLineId' = At(lines, atIndex).id
    /\ pendingHints' = Append(pendingHints,
                              HintCall(lines, atIndex,
                                       getSectionLines(lines, hintMap, feedbackMap, atIndex)))
    /\ Dispatch
    /\ lastOp' = Op("handleGetHint", atIndex)
    /\ UNCHANGED <<lines, feedbackMap, hintMap, checkingLineId, isLoaded, templateSlug,
                   pendingChecks, nextId, bounds, section, served>>
    /\ UNCHANGED <<pendingReads, prompt>>
    /\ Save

\* hints a 200 answer of /api/hint carries
Hints == {"h1"}

\* the hint response also dropping the feedback entries of the document
HintResponse_ClearFeedback(k, hint) ==
    /\ k \in 1 .. Len(pendingHints)
    /\ hintMap' = MapSet(hintMap, pendingHints[k].targetId, hint)
    /\ feedbackMap' = EmptyMap
    /\ loadingHintLineId' = NoId
    /\ pendingHints' = DropAt(pendingHints, k)
    /\ Dispatch
    /\ lastOp' = Op("hintResponse", k)
    /\ UNCHANGED <<lines, checkingLineId, isLoaded, templateSlug,
                   pendingChecks, nextId, bounds, section, served>>
    /\ UNCHANGED <<pendingReads, prompt>>
    /\ Save

\* response.ok: next.set(targetLine.id, data.hint), then finally resets the marker
HintResponse(k, hint) ==
    /\ k \in 1 .. Len(pendingHints)
    /\ hintMap' = MapSet(hintMap, pendingHints[k].targetId, hint)
    /\ loadingHintLineId' = NoId
    /\ pendingHints' = DropAt(pendingHints, k)
    /\ Dispatch
    /\ lastOp' = Op("hintResponse", k)
    /\ UNCHANGED <<lines, feedbackMap, checkingLineId, isLoaded, templateSlug,
                   pendingChecks, nextId, bounds, section, served>>
    /\ UNCHANGED <<pendingReads, prompt>>
    /\ Save

\* !response.ok, or fetch / response.json() throws
HintFailed(k) ==
    /\ k \in 1 .. Len(pendingHints)
    /\ loadingHintLineId' = NoId
    /\ pendingHints' = DropAt(pendingHints, k)
    /\ Dispatch
    /\ lastOp' = Op("hintFailed", k)
    /\ UNCHANGED <<lines, feedbackMap, hintMap, checkingLineId, isLoaded, templateSlug,
                   pendingChecks, nextId, bounds, section, served>>
    /\ UNCHANGED <<pendingReads, prompt>>
    /\ Save

handleDismissHint(index) ==
    /\ Ready
    /\ InRange(lines, index)
    /\ At(lines, index).id \in DOMAIN hintMap
    /\ hintMap' = MapDelete(hintMap, At(lines, index).id)
    /\ Dispatch
    /\ lastOp' = Op("handleDismissHint", index)
    /\ UNCHANGED <<lines, feedbackMap, checkingLineId, isLoaded, templateSlug,
                   pendingChecks, nextId, bounds, section,
                   loadingHintLineId, pendingHints, served>>
    /\ UNCHANGED <<pendingReads, prompt>>
    /\ Save

----------------------------------------------------------------------------
(* Image lines: a file is chosen, the FileReader finishes *)

\* reader.result of readAsDataURL
DataUrl == <<"data:image", "f">>

\* { ...undefined, content }: the element next[index] = ... creates past the end
NoIdLine(content) == [id |-> "undefined", content |-> content, mode |-> "undefined",
                      isProblem |-> FALSE]
\* an empty slot of the array: next[index] = ... past next.length leaves the
\* indices in between unset, and lines.map renders nothing for them
EmptySlot == [id |-> "undefined", content |-> <<>>, mode |-> "empty", isProblem |-> FALSE]

\* const next = [...prev]; next[index] = { ...next[index], content }; for any index >= 0
SetContentAt(ls, index, content) ==
    IF index < Len(ls)
    THEN ReplaceAt(ls, index, [At(ls, index) EXCEPT !.content = content])
    ELSE ls \o [k \in 1 .. index - Len(ls) |-> EmptySlot] \o <<NoIdLine(content)>>

\* a line component is rendered for the index
Rendered(index) == InRange(lines, index) /\ At(lines, index).mode # "empty"

\* the placeholder of an image line without content: click or drop a file
ImageOffered(index) ==
    /\ InRange(lines, index)
    /\ At(lines, index).mode = "image"
    /\ At(lines, index).content = <<>>

\* loadImageFile(file) of the image line at index, file.type an image type;
\* reader.onload will read from its closure the index prop of the render the
\* file was chosen in; lineId is the id of the line it was chosen for
loadImageFile(index) ==
    /\ Ready
    /\ InRange(lines, index)
    /\ Len(pendingReads) < MaxPending
    /\ pendingReads' = Append(pendingReads,
                              [index |-> index, lineId |-> At(lines, index).id])
    /\ Dispatch
    /\ lastOp' = Op("loadImageFile", index)
    /\ UNCHANGED <<lines, feedbackMap, hintMap, checkingLineId, isLoaded, templateSlug,
                   pendingChecks, nextId, bounds, section,
                   loadingHintLineId, pendingHints, served, prompt>>
    /\ Save

\* reader.onload: onChange(index, base64), that is handleChange(index, base64)
ImageRead(k) ==
    /\ k \in 1 .. Len(pendingReads)
    /\ lines' = SetContentAt(lines, pendingReads[k].index, DataUrl)
    /\ pendingReads' = DropAt(pendingReads, k)
    /\ Dispatch
    /\ lastOp' = Op("imageRead", k)
    /\ UNCHANGED <<feedbackMap, hintMap, checkingLineId, isLoaded, templateSlug,
                   pendingChecks, nextId, bounds, section,
                   loadingHintLineId, pendingHints, served, prompt>>
    /\ Save

----------------------------------------------------------------------------
(* Import, New, Clear *)

\* a document of two sections whose last line lacks isProblem (older schema)
SectionsFile ==
    Json(JArray(<< RawLine(JStr("a"), JText(<<"g">>), JStr("text"), JBool(TRUE)),
                   RawLine(JStr("b"), JText(<<>>), JStr("break"), JBool(FALSE)),
                   RawLine(JStr("c"), JText(<<"w">>), JStr("math"), JNoBool) >>),
         JNoObject, JNoObject)
\* a hand-edited file: one id twice, feedback keyed to that id and to no line
EditedFile ==
    Json(JArray(<< RawLine(JStr("a"), JText(<<"g">>), JStr("math"), JBool(FALSE)),
                   RawLine(JStr("a"), JText(<<"w">>), JStr("math"), JBool(FALSE)) >>),
         JObject([k \in {"a"} |-> "h"]),
         JObject([k \in {"a", "z"} |-> [status |-> "issue", latex |-> "m0"]]))
\* a file whose second line has a numeric id
BadIdFile ==
    Json(JArray(<< RawLine(JStr("a"), JText(<<"g">>), JStr("math"), JBool(FALSE)),
                   RawLine(JNumId, JText(<<"w">>), JStr("math"), JBool(FALSE)) >>),
         JNoObject, JNoObject)
\* a file whose first line has a mode the notebook does not know
BadModeFile ==
    Json(JArray(<< RawLine(JStr("a"), JText(<<"g">>), JStr("code"), JBool(FALSE)),
                   RawLine(JStr("b"), JText(<<"w">>), JStr("math"), JBool(FALSE)) >>),
         JNoObject, JNoObject)
EmptyFile == Json(JArray(<<>>), JNoObject, JNoObject)

ImportFiles == {SectionsFile, EditedFile, BadIdFile, BadModeFile, EmptyFile}

RECURSIVE FirstInvalid_AnyMode(_, _)
\* the validation loop without its validModes.includes(line.mode) test
FirstInvalid_AnyMode(raw, i) ==
    IF i >= Len(raw) THEN -1
    ELSE LET line == At(raw, i)
         IN  IF \/ line.id.t # "string" \/ line.id.v = ""
                \/ line.content.t # "string"
             THEN i
             ELSE FirstInvalid_AnyMode(raw, i + 1)

RECURSIVE FirstInvalid(_, _)
\* index of the first line importJSON throws on, or -1
FirstInvalid(raw, i) ==
    IF i >= Len(raw) THEN -1
    ELSE LET line == At(raw, i)
         IN  IF \/ line.id.t # "string" \/ line.id.v = ""
                \/ line.content.t # "string"
                \/ ~(line.mode.t = "string" /\ line.mode.v \in LineMode)
             THEN i
             ELSE FirstInvalid(raw, i + 1)

ImportRejected(data) ==
    \/ data.lines.t # "array"
    \/ Len(data.lines.v) = 0
    \/ FirstInvalid(data.lines.v, 0) # -1

\* the migration that takes every line for a work line
MigrateIsProblem_Drop(v) == FALSE
\* isProblem: typeof line.isProblem === "boolean" ? line.isProblem : false
MigrateIsProblem(v) == IF v.t = "boolean" THEN v.v ELSE FALSE

ValidatedLines(raw) ==
    [k \in 1 .. Len(raw) |->
        MathLine(raw[k].id.v, raw[k].content.v, raw[k].mode.v, MigrateIsProblem(raw[k].isProblem))]

\* data.x && typeof data.x === "object" ? new Map(Object.entries(data.x)) : new Map()
RestoreMap(v) == IF v.t = "object" THEN v.v ELSE EmptyMap

\* importJSON whose catch block leaves the two maps alone
importJSON_KeepMaps(data) ==
    /\ Ready
    /\ IF ImportRejected(data)
       THEN /\ nextId <= MaxId
            /\ lines' = <<EmptyTextLine(generateId(nextId))>>
            /\ nextId' = nextId + 1
            /\ UNCHANGED <<hintMap, feedbackMap>>
       ELSE /\ lines' = ValidatedLines(data.lines.v)
            /\ nextId' = nextId
            /\ hintMap' = RestoreMap(data.hints)
            /\ feedbackMap' = RestoreMap(data.feedback)
    /\ DispatchImport(data)
    /\ lastOp' = Op("importJSON", IF ImportRejected(data) THEN -1 ELSE Len(data.lines.v))
    /\ UNCHANGED <<checkingLineId, isLoaded, templateSlug, pendingChecks, bounds, section,
                   loadingHintLineId, pendingHints, served>>
    /\ UNCHANGED <<pendingReads, prompt>>
    /\ Save

importJSON(data) ==
    /\ Ready
    /\ IF ImportRejected(data)
       THEN /\ nextId <= MaxId
            /\ lines' = <<EmptyTextLine(generateId(nextId))>>
            /\ nextId' = nextId + 1
            /\ hintMap' = EmptyMap
            /\ feedbackMap' = EmptyMap
       ELSE /\ lines' = ValidatedLines(data.lines.v)
            /\ nextId' = nextId
            /\ hintMap' = RestoreMap(data.hints)
            /\ feedbackMap' = RestoreMap(data.feedback)
    /\ DispatchImport(data)
    /\ lastOp' = Op("importJSON", IF ImportRejected(data) THEN -1 ELSE Len(data.lines.v))
    /\ UNCHANGED <<checkingLineId, isLoaded, templateSlug, pendingChecks, bounds, section,
                   loadingHintLineId, pendingHints, served>>
    /\ UNCHANGED <<pendingReads, prompt>>
    /\ Save

handleNew ==
    /\ Ready
    /\ nextId + 2 <= MaxId
    /\ lines' = createInitialLines(nextId)
    /\ nextId' = nextId + 3
    /\ feedbackMap' = EmptyMap
    /\ Dispatch
    /\ lastOp' = Op("handleNew", -1)
    /\ UNCHANGED <<hintMap, checkingLineId, isLoaded, templateSlug, pendingChecks, bounds, section,
                   loadingHintLineId, pendingHints, served>>
    /\ UNCHANGED <<pendingReads, prompt>>
    /\ Save

handleClear ==
    /\ Ready
    /\ nextId <= MaxId
    /\ lines' = <<EmptyTextLine(generateId(nextId))>>
    /\ nextId' = nextId + 1
    /\ feedbackMap' = EmptyMap
    /\ Dispatch
    /\ lastOp' = Op("handleClear", -1)
    /\ UNCHANGED <<hintMap, checkingLineId, isLoaded, templateSlug, pendingChecks, bounds, section,
                   loadingHintLineId, pendingHints, served>>
    /\ UNCHANGED <<pendingReads, prompt>>
    /\ Save

----------------------------------------------------------------------------
(* Mount: template fetch or local-storage load *)

\* line lists a template answer carries; an answer without lines carries none
TemplateLines ==
    { << MathLine("t1", <<"g">>, "text", TRUE), MathLine("t2", <<"w">>, "math", FALSE) >>,
      <<>> }

\* data.lines.map((line) => ({ ...line, id: generateId() }))
RegenerateIds(ls, n) == [k \in 1 .. Len(ls) |-> [ls[k] EXCEPT !.id = generateId(n + k - 1)]]

\* the fetch of /api/templates/<slug> settled with an OK answer
TemplateLoaded(tl) ==
    /\ ~isLoaded
    /\ templateSlug
    /\ nextId + Len(tl) - 1 <= MaxId
    /\ IF Len(tl) > 0
       THEN /\ lines' = RegenerateIds(tl, nextId)
            /\ nextId' = nextId + Len(tl)
       ELSE UNCHANGED <<lines, nextId>>
    /\ isLoaded' = TRUE
    /\ Dispatch
    /\ lastOp' = Op("templateLoaded", Len(tl))
    /\ UNCHANGED <<feedbackMap, hintMap, checkingLineId, templateSlug, pendingChecks, bounds, section,
                   loadingHintLineId, pendingHints, served>>
    /\ UNCHANGED <<pendingReads, prompt>>
    /\ Save

\* the fetch failed or answered non-OK
TemplateFailed ==
    /\ ~isLoaded
    /\ templateSlug
    /\ isLoaded' = TRUE
    /\ Dispatch
    /\ lastOp' = Op("templateFailed", -1)
    /\ UNCHANGED <<lines, feedbackMap, hintMap, checkingLineId, templateSlug,
                   pendingChecks, nextId, bounds, section,
                   loadingHintLineId, pendingHints, served>>
    /\ UNCHANGED <<pendingReads, prompt>>
    /\ Save

\* what localStorage may hold under STORAGE_KEY: nothing, or a snapshot the
\* save effect wrote in an earlier session
SavedSnapshot ==
    Json(SectionsFile.lines, JObject(EmptyMap),
         JObject([k \in {"c"} |-> [status |-> "ok", latex |-> "\\text{All steps are valid.}"]]))
SavedItems == {Json(JNoArray, JNoObject, JNoObject), SavedSnapshot}

\* the load effect; saved.lines.t = "undefined" stands for no item or no lines
LoadLocalStorage(saved) ==
    /\ ~isLoaded
    /\ ~templateSlug
    /\ ~minimal
    /\ IF saved.lines.t = "array" /\ Len(saved.lines.v) > 0
       THEN /\ lines' = ValidatedLines(saved.lines.v)
            /\ hintMap' = IF saved.hints.t = "object" THEN saved.hints.v ELSE hintMap
            /\ feedbackMap' = IF saved.feedback.t = "object" THEN saved.feedback.v ELSE feedbackMap
       ELSE UNCHANGED <<lines, hintMap, feedbackMap>>
    /\ isLoaded' = TRUE
    /\ Dispatch
    /\ lastOp' = Op("loadLocalStorage", -1)
    /\ UNCHANGED <<checkingLineId, templateSlug, pendingChecks, nextId, bounds, section,
                   loadingHintLineId, pendingHints, served>>
    /\ UNCHANGED <<pendingReads, prompt>>
    /\ Save

----------------------------------------------------------------------------
(* The notebook *)

\* what a user types into a line
Contents == {<<"x">>}

Init ==
    /\ lines = createInitialLines(1)
    /\ nextId = 4
    /\ feedbackMap = EmptyMap
    /\ hintMap = EmptyMap
    /\ checkingLineId = NoId
    /\ isLoaded = FALSE
    /\ templateSlug \in BOOLEAN
    /\ pendingChecks = <<>>
    /\ loadingHintLineId = NoId
    /\ pendingHints = <<>>
    /\ served = NoServed
    /\ toggleRun = NoRun
    /\ importedFile = NoFile
    /\ lastOp = [name |-> "mount", index |-> -1, len |-> 0]
    /\ events = 0
    /\ bounds = NoBounds
    /\ section = NoSection
    /\ storage \in SavedItems
    /\ minimal = FALSE
    /\ focusState = NoFocus
    /\ pendingReads = <<>>
    /\ prompt = NoPrompt

Next ==
    \/ \E tl \in TemplateLines : TemplateLoaded(tl)
    \/ TemplateFailed
    \/ LoadLocalStorage(storage)
    \/ \E i \in 0 .. MaxLines, c \in Contents : handleChange(i, c)
    \/ \E i \in 0 .. MaxLines, m \in LineMode : handleModeChange(i, m)
    \/ \E i \in 0 .. MaxLines : handleEnterPress(i)
    \/ \E i \in 0 .. MaxLines, p \in Pastes : handleMultiLinePaste(i, p)
    \/ \E i \in 0 .. MaxLines : handleDeleteLine(i)
    \/ \E i \in 0 .. MaxLines : handleToggleProblem(i)
    \/ \E i \in 0 .. MaxLines : CheckOffered(i) /\ handleCheckReasoning(i)
    \/ \E k \in 1 .. MaxPending, d \in CheckData : CheckResponse(k, d)
    \/ \E k \in 1 .. MaxPending : CheckFailed(k)
    \/ \E i \in 0 .. MaxLines : handleDismissFeedback(i)
    \/ \E i \in 0 .. MaxLines : HintOffered(i) /\ handleGetHint(i)
    \/ \E k \in 1 .. MaxPending, h \in Hints : HintResponse(k, h)
    \/ \E k \in 1 .. MaxPending : HintFailed(k)
    \/ \E i \in 0 .. MaxLines : handleDismissHint(i)
    \/ \E d \in ImportFiles \cup {exportJSON(lines, hintMap, feedbackMap)} :
          ~minimal /\ importJSON(d)
    \* the toolbar (New, Clear, Import, Export) is not rendered in minimal mode
    \/ ~minimal /\ handleNew
    \/ ~minimal /\ handleClear

Spec == Init /\ [][Next]_vars

\* the landing page: <MathNotebook initialLines={demoLines} minimal />; no
\* effect sets isLoaded, the lines are those of the demo template file
InitMinimal ==
    /\ lines = << MathLine("t1", <<"g">>, "text", TRUE), MathLine("t2", <<"w">>, "math", FALSE) >>
    /\ nextId = 1
    /\ feedbackMap = EmptyMap
    /\ hintMap = EmptyMap
    /\ checkingLineId = NoId
    /\ isLoaded = FALSE
    /\ templateSlug = FALSE
    /\ pendingChecks = <<>>
    /\ loadingHintLineId = NoId
    /\ pendingHints = <<>>
    /\ served = NoServed
    /\ toggleRun = NoRun
    /\ importedFile = NoFile
    /\ lastOp = [name |-> "mount", index |-> -1, len |-> 0]
    /\ events = 0
    /\ bounds = NoBounds
    /\ section = NoSection
    /\ storage \in SavedItems
    /\ minimal = TRUE
    /\ focusState = NoFocus
    /\ pendingReads = <<>>
    /\ prompt = NoPrompt

\* the notebook of either page: /notebook (Init) or the landing page
InitStorage == Init \/ InitMinimal

SpecStorage == InitStorage /\ [][Next]_vars

----------------------------------------------------------------------------
(* The section partitioner and the context extractor on arbitrary documents *)

\* longest document the extractor is evaluated on
MaxDocLen == 3

\* every document of up to MaxDocLen lines, each of any mode and flag; an
\* accepted import can put the notebook into each of them
SectionDocs ==
    UNION { [1 .. n -> [id : {"id"}, content : {<<"x">>}, mode : LineMode, isProblem : BOOLEAN]]
            : n \in 1 .. MaxDocLen }
WithIds(ls) == [k \in 1 .. Len(ls) |-> [ls[k] EXCEPT !.id = generateId(k)]]

InitSection ==
    /\ lines \in {WithIds(d) : d \in SectionDocs}
    /\ nextId = MaxDocLen + 1
    /\ feedbackMap = [k \in {generateId(1)} |-> Feedback("issue", "m0")]
    /\ hintMap = [k \in {generateId(2)} |-> "h"]
    /\ checkingLineId = NoId
    /\ isLoaded = TRUE
    /\ templateSlug = FALSE
    /\ pendingChecks = <<>>
    /\ loadingHintLineId = NoId
    /\ pendingHints = <<>>
    /\ served = NoServed
    /\ toggleRun = NoRun
    /\ importedFile = NoFile
    /\ lastOp = [name |-> "import", index |-> -1, len |-> 0]
    /\ events = 0
    /\ bounds = NoBounds
    /\ section = NoSection
    /\ storage = exportJSON(lines, hintMap, feedbackMap)
    /\ minimal = FALSE
    /\ focusState = NoFocus
    /\ pendingReads = <<>>
    /\ prompt = NoPrompt

EvalSectionBounds(lineIndex) ==
    /\ InRange(lines, lineIndex)
    /\ bounds' = getSectionBounds(lines, lineIndex)
    /\ lastOp' = Op("getSectionBounds", lineIndex)
    /\ UNCHANGED <<lines, feedbackMap, hintMap, checkingLineId, isLoaded, templateSlug,
                   pendingChecks, nextId, events, section,
                   loadingHintLineId, pendingHints, served, toggleRun, importedFile>>
    /\ UNCHANGED <<storage, minimal, focusState, pendingReads, prompt>>

EvalSectionLines(upToIndex) ==
    /\ InRange(lines, upToIndex)
    /\ section' = getSectionLines(lines, hintMap, feedbackMap, upToIndex)
    /\ lastOp' = Op("getSectionLines", upToIndex)
    /\ UNCHANGED <<lines, feedbackMap, hintMap, checkingLineId, isLoaded, templateSlug,
                   pendingChecks, nextId, events, bounds,
                   loadingHintLineId, pendingHints, served, toggleRun, importedFile>>
    /\ UNCHANGED <<storage, minimal, focusState, pendingReads, prompt>>

NextSection ==
    \/ \E i \in 0 .. MaxDocLen : EvalSectionBounds(i)
    \/ \E i \in 0 .. MaxDocLen : EvalSectionLines(i)

SpecSection == InitSection /\ [][NextSection]_vars

----------------------------------------------------------------------------
(* importJSON on arbitrary files *)

\* most lines of an imported file
MaxFileLen == 2

\* lines a file can hold: well-formed ones, and ones with one field missing
\* or of another type (a line that is no object has all of them missing)
WellFormedLines ==
    {RawLine(JStr(id), JText(<<"g">>), JStr(mode), isProblem) :
        id \in {"a", "b"}, mode \in LineMode, isProblem \in {JBool(TRUE), JBool(FALSE), JNoBool}}
MalformedLines ==
    {RawLine(id, JText(<<"g">>), JStr("math"), JBool(TRUE)) : id \in {JStr(""), JNumId, JNoStr}}
    \cup {RawLine(JStr("a"), JNoText, JStr("math"), JBool(TRUE))}
    \cup {RawLine(JStr("a"), JText(<<"g">>), mode, JBool(TRUE)) : mode \in {JStr("code"), JNoStr}}
    \cup {RawLine(JNoStr, JNoText, JNoStr, JNoBool)}
FileLines == WellFormedLines \cup MalformedLines

\* the value of "lines" in a file: missing, not a list, or a list of lines
FileLineLists ==
    {JNoArray, [t |-> "object", v |-> <<>>]}
    \cup {JArray(ls) : ls \in UNION {[1 .. n -> FileLines] : n \in 0 .. MaxFileLen}}
ImportInputs ==
    {Json(ls, hints, JNoObject) :
        ls \in FileLineLists, hints \in {JNoObject, JObject([k \in {"a"} |-> "h"])}}

\* the notebook before the import: the one local storage restored, or the one
\* an earlier import of EditedFile left; the import is the last event
InitImport ==
    /\ \/ /\ lines = ValidatedLines(SavedSnapshot.lines.v)
          /\ hintMap = RestoreMap(SavedSnapshot.hints)
          /\ feedbackMap = RestoreMap(SavedSnapshot.feedback)
       \/ /\ lines = ValidatedLines(EditedFile.lines.v)
          /\ hintMap = RestoreMap(EditedFile.hints)
          /\ feedbackMap = RestoreMap(EditedFile.feedback)
    /\ nextId = 4
    /\ checkingLineId = NoId
    /\ isLoaded = TRUE
    /\ templateSlug = FALSE
    /\ pendingChecks = <<>>
    /\ loadingHintLineId = NoId
    /\ pendingHints = <<>>
    /\ served = NoServed
    /\ toggleRun = NoRun
    /\ importedFile = NoFile
    /\ lastOp = [name |-> "mount", index |-> -1, len |-> 0]
    /\ events = MaxEvents - 1
    /\ bounds = NoBounds
    /\ section = NoSection
    /\ storage = exportJSON(lines, hintMap, feedbackMap)
    /\ minimal = FALSE
    /\ focusState = NoFocus
    /\ pendingReads = <<>>
    /\ prompt = NoPrompt

NextImport == events < MaxEvents /\ \E d \in ImportInputs : importJSON(d)

SpecImport == InitImport /\ [][NextImport]_vars

----------------------------------------------------------------------------
(* The two API routes, and the client handlers called at any index *)

\* request bodies: text request.json() throws on, or an object whose
\* problemLines and userLines are missing or lists
JsonBody(problemLines, userLines) ==
    [parses |-> TRUE, problemLines |-> problemLines, userLines |-> userLines]
NotJsonBody == [parses |-> FALSE, problemLines |-> JNoArray, userLines |-> JNoArray]
Bodies ==
    {NotJsonBody}
    \cup {JsonBody(p, u) :
            p \in {JNoArray, JArray(<<[mode |-> "text", content |-> <<"g">>]>>)},
            u \in {JNoArray, JArray(<<>>),
                   JArray(<<[mode |-> "math", content |-> <<"w">>, lineId |-> "c"]>>)}}

\* fields of the object the model answered with
JNum(n) == [t |-> "number", v |-> n]
JNoNum == [t |-> "undefined", v |-> 0]
Parsed(status, issues, stepIndex, latex) ==
    [status |-> status, issues |-> issues, stepIndex |-> stepIndex, latex |-> latex]
NoData == Parsed(JNoStr, JNoArray, JNoNum, JNoStr)

\* what openai.chat.completions.create does: it throws, or it returns a
\* message whose content is empty, is no JSON, is the JSON null, or is a JSON
\* object
UpstreamAnswer(kind, parsed) == [kind |-> kind, parsed |-> parsed]
NoAnswer == UpstreamAnswer("none", NoData)
CheckAnswers ==
    {UpstreamAnswer(kind, NoData) : kind \in {"throws", "empty", "text", "null"}}
    \cup {UpstreamAnswer("object", Parsed(JStr(status), issues, stepIndex, JStr("m0"))) :
            status \in {"ok", "issue", "unsure"},
            issues \in {JNoArray, JArray(<<>>), JArray(<<Issue(1, "m1")>>)},
            stepIndex \in {JNoNum, JNum(0), JNum(2)}}

\* NextResponse.json(data, { status }); called: create() was reached
Response(status, error, data, called) ==
    [status |-> status, error |-> error, data |-> data, called |-> called]

\* JavaScript truthiness of parsed.issues and parsed.stepIndex
Truthy(v) == v.t = "array" \/ (v.t = "number" /\ v.v # 0)

\* if (parsed.status === "issue") if (!parsed.issues && parsed.stepIndex) parsed.issues = [...]
Normalize(parsed) ==
    IF parsed.status.v = "issue" /\ ~Truthy(parsed.issues) /\ Truthy(parsed.stepIndex)
    THEN [parsed EXCEPT !.issues = JArray(<<Issue(parsed.stepIndex.v, parsed.latex.v)>>)]
    ELSE parsed

\* the route forwarding a request that lists no work line
CheckReasoningPOST_AllowEmpty(apiKey, body, answer) ==
    IF ~apiKey THEN Response(500, "OpenAI API key not configured", NoData, FALSE)
    ELSE IF ~body.parses THEN Response(400, "Invalid JSON in request body", NoData, FALSE)
    ELSE IF body.problemLines.t # "array"
    THEN Response(400, "Missing or invalid problemLines array", NoData, FALSE)
    ELSE IF body.userLines.t # "array"
    THEN Response(400, "Missing or invalid userLines array", NoData, FALSE)
    ELSE IF answer.kind = "throws" THEN Response(500, "error.message", NoData, TRUE)
    ELSE IF answer.kind = "empty" THEN Response(500, "Empty response from OpenAI", NoData, TRUE)
    ELSE IF answer.kind = "text"
    THEN Response(500, "Failed to parse OpenAI response as JSON", NoData, TRUE)
    ELSE IF answer.kind = "null" THEN Response(500, "error.message", NoData, TRUE)
    ELSE IF answer.parsed.status.v \notin {"ok", "issue"}
    THEN Response(500, "Invalid response structure from OpenAI", NoData, TRUE)
    ELSE Response(200, "", Normalize(answer.parsed), TRUE)

\* POST of /api/check-reasoning
CheckReasoningPOST(apiKey, body, answer) ==
    IF ~apiKey THEN Response(500, "OpenAI API key not configured", NoData, FALSE)
    ELSE IF ~body.parses THEN Response(400, "Invalid JSON in request body", NoData, FALSE)
    ELSE IF body.problemLines.t # "array"
    THEN Response(400, "Missing or invalid problemLines array", NoData, FALSE)
    ELSE IF body.userLines.t # "array"
    THEN Response(400, "Missing or invalid userLines array", NoData, FALSE)
    ELSE IF Len(body.userLines.v) = 0
    THEN Response(400, "No user lines to evaluate", NoData, FALSE)
    ELSE IF answer.kind = "throws" THEN Response(500, "error.message", NoData, TRUE)
    ELSE IF answer.kind = "empty" THEN Response(500, "Empty response from OpenAI", NoData, TRUE)
    ELSE IF answer.kind = "text"
    THEN Response(500, "Failed to parse OpenAI response as JSON", NoData, TRUE)
    ELSE IF answer.kind = "null" THEN Response(500, "error.message", NoData, TRUE)
    ELSE IF answer.parsed.status.v \notin {"ok", "issue"}
    THEN Response(500, "Invalid response structure from OpenAI", NoData, TRUE)
    ELSE Response(200, "", Normalize(answer.parsed), TRUE)

HintParsed(hint) == [hint |-> hint]
NoHintData == HintParsed(JNoStr)
NoHintAnswer == UpstreamAnswer("none", NoHintData)
HintAnswers ==
    {UpstreamAnswer(kind, NoHintData) : kind \in {"throws", "empty", "text", "null"}}
    \cup {UpstreamAnswer("object", HintParsed(hint)) : hint \in {JStr("h1"), JNoStr}}

\* the route creating the client and the completion before it looks at the key
HintPOST_NoKeyCheck(apiKey, body, answer) ==
    IF ~body.parses THEN Response(400, "Invalid JSON in request body", NoHintData, FALSE)
    ELSE IF body.problemLines.t # "array"
    THEN Response(400, "Missing or invalid problemLines array", NoHintData, FALSE)
    ELSE IF body.userLines.t # "array"
    THEN Response(400, "Missing or invalid userLines array", NoHintData, FALSE)
    ELSE IF answer.kind = "throws" THEN Response(500, "error.message", NoHintData, TRUE)
    ELSE IF answer.kind = "empty" THEN Response(500, "Empty response from OpenAI", NoHintData, TRUE)
    ELSE IF answer.kind = "text"
    THEN Response(500, "Failed to parse OpenAI response as JSON", NoHintData, TRUE)
    ELSE IF answer.kind = "null" THEN Response(500, "error.message", NoHintData, TRUE)
    ELSE IF answer.parsed.hint.t # "string"
    THEN Response(500, "Invalid response structure from OpenAI", NoHintData, TRUE)
    ELSE Response(200, "", answer.parsed, TRUE)

\* POST of /api/hint
HintPOST(apiKey, body, answer) ==
    IF ~apiKey THEN Response(500, "OpenAI API key not configured", NoHintData, FALSE)
    ELSE IF ~body.parses THEN Response(400, "Invalid JSON in request body", NoHintData, FALSE)
    ELSE IF body.problemLines.t # "array"
    THEN Response(400, "Missing or invalid problemLines array", NoHintData, FALSE)
    ELSE IF body.userLines.t # "array"
    THEN Response(400, "Missing or invalid userLines array", NoHintData, FALSE)
    ELSE IF answer.kind = "throws" THEN Response(500, "error.message", NoHintData, TRUE)
    ELSE IF answer.kind = "empty" THEN Response(500, "Empty response from OpenAI", NoHintData, TRUE)
    ELSE IF answer.kind = "text"
    THEN Response(500, "Failed to parse OpenAI response as JSON", NoHintData, TRUE)
    ELSE IF answer.kind = "null" THEN Response(500, "error.message", NoHintData, TRUE)
    ELSE IF answer.parsed.hint.t # "string"
    THEN Response(500, "Invalid response structure from OpenAI", NoHintData, TRUE)
    ELSE Response(200, "", answer.parsed, TRUE)

\* a handled request: the route, whether OPENAI_API_KEY is set, the body, what
\* the model answered if it was asked, and the response
Served(route, apiKey, body, answer, response) ==
    [route |-> route, apiKey |-> apiKey, body |-> body, answer |-> answer,
     response |-> response]

\* /api/check-reasoning handles a request, the first of the behaviour
ServeCheckReasoning(apiKey, body, answer) ==
    /\ served = NoServed
    /\ LET response == CheckReasoningPOST(apiKey, body, answer)
       IN  served' = Served("check-reasoning", apiKey, body,
                            IF response.called THEN answer ELSE NoAnswer, response)
    /\ Dispatch
    /\ lastOp' = Op("POST", -1)
    /\ UNCHANGED <<lines, feedbackMap, hintMap, checkingLineId, isLoaded, templateSlug,
                   pendingChecks, nextId, bounds, section, loadingHintLineId, pendingHints>>
    /\ UNCHANGED <<pendingReads, prompt>>
    /\ Save

\* /api/hint handles a request, the first of the behaviour
ServeHint(apiKey, body, answer) ==
    /\ served = NoServed
    /\ LET response == HintPOST(apiKey, body, answer)
       IN  served' = Served("hint", apiKey, body,
                            IF response.called THEN answer ELSE NoHintAnswer, response)
    /\ Dispatch
    /\ lastOp' = Op("POST", -1)
    /\ UNCHANGED <<lines, feedbackMap, hintMap, checkingLineId, isLoaded, templateSlug,
                   pendingChecks, nextId, bounds, section, loadingHintLineId, pendingHints>>
    /\ UNCHANGED <<pendingReads, prompt>>
    /\ Save

\* the notebook local storage restored: a problem line, a break, a work line
\* that carries feedback
InitApi ==
    /\ lines = ValidatedLines(SavedSnapshot.lines.v)
    /\ hintMap = RestoreMap(SavedSnapshot.hints)
    /\ feedbackMap = RestoreMap(SavedSnapshot.feedback)
    /\ nextId = 4
    /\ checkingLineId = NoId
    /\ isLoaded = TRUE
    /\ templateSlug = FALSE
    /\ pendingChecks = <<>>
    /\ loadingHintLineId = NoId
    /\ pendingHints = <<>>
    /\ served = NoServed
    /\ toggleRun = NoRun
    /\ importedFile = NoFile
    /\ lastOp = [name |-> "loadLocalStorage", index |-> -1, len |-> 3]
    /\ events = 0
    /\ bounds = NoBounds
    /\ section = NoSection
    /\ storage = exportJSON(lines, hintMap, feedbackMap)
    /\ minimal = FALSE
    /\ focusState = NoFocus
    /\ pendingReads = <<>>
    /\ prompt = NoPrompt

NextApi ==
    \/ \E i \in 0 .. MaxLines : handleCheckReasoning(i)
    \/ \E i \in 0 .. MaxLines : handleGetHint(i)
    \/ \E apiKey \in BOOLEAN, body \in Bodies, answer \in CheckAnswers :
          ServeCheckReasoning(apiKey, body, answer)
    \/ \E apiKey \in BOOLEAN, body \in Bodies, answer \in HintAnswers :
          ServeHint(apiKey, body, answer)

SpecApi == InitApi /\ [][NextApi]_vars

----------------------------------------------------------------------------
(* Image reads interleaved with edits *)

\* a loaded notebook whose second line is an image line without an image
InitImage ==
    /\ lines = << MathLine(generateId(1), <<"x">>, "text", FALSE),
                  MathLine(generateId(2), <<>>, "image", FALSE) >>
    /\ nextId = 3
    /\ feedbackMap = EmptyMap
    /\ hintMap = EmptyMap
    /\ checkingLineId = NoId
    /\ isLoaded = TRUE
    /\ templateSlug = FALSE
    /\ pendingChecks = <<>>
    /\ loadingHintLineId = NoId
    /\ pendingHints = <<>>
    /\ served = NoServed
    /\ toggleRun = NoRun
    /\ importedFile = NoFile
    /\ lastOp = [name |-> "loadLocalStorage", index |-> -1, len |-> 2]
    /\ events = 0
    /\ bounds = NoBounds
    /\ section = NoSection
    /\ storage = exportJSON(lines, hintMap, feedbackMap)
    /\ minimal = FALSE
    /\ focusState = NoFocus
    /\ pendingReads = <<>>
    /\ prompt = NoPrompt

NextImage ==
    \/ \E i \in 0 .. MaxLines : ImageOffered(i) /\ loadImageFile(i)
    \/ \E k \in 1 .. MaxPending : ImageRead(k)
    \/ \E i \in 0 .. MaxLines : Rendered(i) /\ handleEnterPress(i)
    \/ \E i \in 0 .. MaxLines : Rendered(i) /\ handleDeleteLine(i)
    \/ \E i \in 0 .. MaxLines, m \in LineMode :
          Rendered(i) /\ At(lines, i).mode \in LineMode /\ handleModeChange(i, m)

SpecImage == InitImage /\ [][NextImage]_vars

----------------------------------------------------------------------------
(* The prompt builder of /api/check-reasoning *)

\* a piece of the text of a text part: a heading, a bullet "- <body>\n", a
\* step "Step <step>: <body>\n", a label "Step <step>: ", a hint note, "\n"
Seg(kind, step, body) == [kind |-> kind, step |-> step, body |-> body]
TextPart(text) == [type |-> "text", text |-> text, url |-> <<>>]
ImagePart(url) == [type |-> "image_url", text |-> <<>>, url |-> url]

\* line.content.startsWith("data:image")
IsDataImage(content) == content # <<>> /\ Head(content) = "data:image"
\* text.trim() is not empty
NotBlank(text) == \E k \in 1 .. Len(text) : text[k].kind # "newline"
Flush(parts, text) == IF NotBlank(text) THEN Append(parts, TextPart(text)) ELSE parts

formatLineContent(line) ==
    IF line.mode = "math" THEN <<"$">> \o line.content \o <<"$">>
    ELSE IF line.mode = "image" THEN <<"[Image attached]">>
    ELSE line.content

RECURSIVE ProblemParts(_, _, _, _)
\* for (const line of problemLines) { ... }
ProblemParts(problemLines, i, parts, problemText) ==
    IF i >= Len(problemLines) THEN <<parts, problemText>>
    ELSE LET line == At(problemLines, i)
         IN  IF line.mode = "image" /\ IsDataImage(line.content)
             THEN ProblemParts(problemLines, i + 1,
                               Flush(parts, problemText)
                                   \o <<ImagePart(line.content),
                                        TextPart(<<Seg("newline", 0, <<>>)>>)>>,
                               <<>>)
             ELSE ProblemParts(problemLines, i + 1, parts,
                               Append(problemText, Seg("bullet", 0, formatLineContent(line))))

\* the labels counting from 0
StepNumber_ZeroBased(i) == i
\* `Step ${i + 1}`
StepNumber(i) == i + 1

RECURSIVE UserParts(_, _, _, _, _)
\* for (let i = 0; i < userLines.length; i++) { ... }
UserParts(userLines, hints, i, parts, userText) ==
    IF i >= Len(userLines) THEN Flush(parts, userText)
    ELSE LET line == At(userLines, i)
             hint == line.lineId \in DOMAIN hints /\ hints[line.lineId] # ""
         IN  IF line.mode = "image" /\ IsDataImage(line.content)
             THEN UserParts(userLines, hints, i + 1,
                            Flush(parts, userText)
                                \o <<TextPart(<<Seg("label", StepNumber(i), <<>>)>>),
                                     ImagePart(line.content),
                                     TextPart(IF hint
                                              THEN <<Seg("hint", 0, <<hints[line.lineId]>>)>>
                                              ELSE <<Seg("newline", 0, <<>>)>>)>>,
                            <<>>)
             ELSE UserParts(userLines, hints, i + 1, parts,
                            userText
                                \o <<Seg("step", StepNumber(i), formatLineContent(line))>>
                                \o (IF hint THEN <<Seg("hint", 0, <<hints[line.lineId]>>)>>
                                    ELSE <<>>))

\* the content parts of the one user message buildUserMessage returns
buildUserMessage(problemLines, userLines, hints) ==
    LET problem ==
            IF Len(problemLines) > 0
            THEN LET r == ProblemParts(problemLines, 0, <<>>,
                                       <<Seg("heading", 0, <<"PROBLEM CONTEXT">>)>>)
                 IN  IF NotBlank(r[2])
                     THEN Append(r[1], TextPart(Append(r[2], Seg("newline", 0, <<>>))))
                     ELSE r[1]
            ELSE <<>>
    IN  UserParts(userLines, hints, 0, problem, <<Seg("heading", 0, <<"USER STEPS">>)>>)

\* longest document a prompt is built for
MaxPromptLen == 3

\* documents of up to MaxPromptLen lines of every mode and flag, no two lines
\* with the same content unless they are empty image lines; an image line is
\* empty or holds a data URL
PromptContent(k, mode, loaded) ==
    IF mode = "image"
    THEN IF loaded THEN <<"data:image", generateId(k)>> ELSE <<>>
    ELSE <<generateId(k)>>
PromptDocs ==
    UNION { { [k \in 1 .. n |->
                 MathLine(generateId(k), PromptContent(k, f[k].mode, f[k].loaded),
                          f[k].mode, f[k].isProblem)] :
              f \in [1 .. n -> [mode : LineMode, loaded : BOOLEAN, isProblem : BOOLEAN]] }
            : n \in 1 .. MaxPromptLen }

InitPrompt ==
    /\ lines \in PromptDocs
    /\ nextId = MaxPromptLen + 1
    /\ feedbackMap = EmptyMap
    /\ hintMap = [k \in {generateId(2)} |-> "h"]
    /\ checkingLineId = NoId
    /\ isLoaded = TRUE
    /\ templateSlug = FALSE
    /\ pendingChecks = <<>>
    /\ loadingHintLineId = NoId
    /\ pendingHints = <<>>
    /\ served = NoServed
    /\ toggleRun = NoRun
    /\ importedFile = NoFile
    /\ lastOp = [name |-> "import", index |-> -1, len |-> 0]
    /\ events = 0
    /\ bounds = NoBounds
    /\ section = NoSection
    /\ storage = exportJSON(lines, hintMap, feedbackMap)
    /\ minimal = FALSE
    /\ focusState = NoFocus
    /\ pendingReads = <<>>
    /\ prompt = NoPrompt

\* the route builds the message for the body handleCheckReasoning(upToIndex)
\* sends: { problemLines, userLines, hints } of getSectionLines(upToIndex)
EvalBuildUserMessage(upToIndex) ==
    /\ InRange(lines, upToIndex)
    /\ LET sec == getSectionLines(lines, hintMap, feedbackMap, upToIndex)
       IN  /\ Len(sec.userLines) > 0
           /\ section' = sec
           /\ prompt' = [userLines |-> sec.userLines,
                         parts |-> buildUserMessage(sec.problemLines, sec.userLines, sec.hints)]
    /\ lastOp' = Op("buildUserMessage", upToIndex)
    /\ UNCHANGED <<lines, feedbackMap, hintMap, checkingLineId, isLoaded, templateSlug,
                   pendingChecks, nextId, events, bounds,
                   loadingHintLineId, pendingHints, served, toggleRun, importedFile>>
    /\ UNCHANGED <<storage, minimal, focusState, pendingReads>>

NextPrompt == \E i \in 0 .. MaxPromptLen : EvalBuildUserMessage(i)

SpecPrompt == InitPrompt /\ [][NextPrompt]_vars

----------------------------------------------------------------------------
(* Outstanding calls under the assumption that every fetch settles *)

\* a loaded notebook with two work lines, one of them a math line
InitLive ==
    /\ lines = createInitialLines(1)
    /\ nextId = 4
    /\ feedbackMap = EmptyMap
    /\ hintMap = EmptyMap
    /\ checkingLineId = NoId
    /\ isLoaded = TRUE
    /\ templateSlug = FALSE
    /\ pendingChecks = <<>>
    /\ loadingHintLineId = NoId
    /\ pendingHints = <<>>
    /\ served = NoServed
    /\ toggleRun = NoRun
    /\ importedFile = NoFile
    /\ lastOp = [name |-> "loadLocalStorage", index |-> -1, len |-> 3]
    /\ events = 0
    /\ bounds = NoBounds
    /\ section = NoSection
    /\ storage = exportJSON(lines, hintMap, feedbackMap)
    /\ minimal = FALSE
    /\ focusState = NoFocus
    /\ pendingReads = <<>>
    /\ prompt = NoPrompt

\* the user acts only while the event budget leaves one event to each
\* outstanding call, so that no call is cut off by the bound of the model
Room(n) == events + Len(pendingChecks) + Len(pendingHints) + n <= MaxEvents

SettleCheck ==
    \/ \E k \in 1 .. MaxPending, d \in CheckData : CheckResponse(k, d)
    \/ \E k \in 1 .. MaxPending : CheckFailed(k)
SettleHint ==
    \/ \E k \in 1 .. MaxPending, h \in Hints : HintResponse(k, h)
    \/ \E k \in 1 .. MaxPending : HintFailed(k)

NextLive ==
    \/ \E i \in 0 .. MaxLines : Room(2) /\ CheckOffered(i) /\ handleCheckReasoning(i)
    \/ \E i \in 0 .. MaxLines : Room(2) /\ HintOffered(i) /\ handleGetHint(i)
    \/ \E i \in 0 .. MaxLines : Room(1) /\ handleDeleteLine(i)
    \/ \E i \in 0 .. MaxLines : Room(1) /\ handleToggleProblem(i)
    \/ SettleCheck
    \/ SettleHint

\* every fetch resolves or rejects: a settlement that stays possible happens
SpecLive == InitLive /\ [][NextLive]_vars /\ WF_vars(SettleCheck) /\ WF_vars(SettleHint)

----------------------------------------------------------------------------
(* Properties *)

IdSeq(ls) == [k \in 1 .. Len(ls) |-> ls[k].id]
IsEmptyTextLine(l) == l.content = <<>> /\ l.mode = "text" /\ ~l.isProblem

\* C1: in every reachable state of the notebook the document holds at least
\* one line.
C1_AtLeastOneLine == Len(lines) >= 1

\* the only line was deleted and one line is there
C1_Witness ==
    /\ lastOp.name = "handleDeleteLine"
    /\ lastOp.len = 1
    /\ Len(lines) = 1

\* C2: a delete on a document of more than one line removes one line, and a
\* delete on a document of one line leaves exactly one line, which is an empty
\* text line with isProblem false; so deleting until one line remains and then
\* once more yields one empty text line.
C2_DeleteToEmptyLine ==
    [][\A i \in 0 .. MaxLines :
          handleDeleteLine(i) =>
              IF Len(lines) = 1
              THEN Len(lines') = 1 /\ IsEmptyTextLine(lines'[1])
              ELSE Len(lines') = Len(lines) - 1 /\ Len(lines') >= 1]_vars

\* the three initial lines were deleted down to one and that one was deleted
C2_Witness ==
    /\ lastOp.name = "handleDeleteLine"
    /\ lastOp.len = 1
    /\ events >= 4
    /\ Len(lines) = 1
    /\ IsEmptyTextLine(lines[1])

UniqueIds == \A i, j \in 1 .. Len(lines) : i # j => lines[i].id # lines[j].id

\* the ids of the lines a handler keeps are the ids they had, in the same order
StableIds ==
    /\ \A i \in 0 .. MaxLines, c \in Contents : handleChange(i, c) => IdSeq(lines') = IdSeq(lines)
    /\ \A i \in 0 .. MaxLines, m \in LineMode : handleModeChange(i, m) => IdSeq(lines') = IdSeq(lines)
    /\ \A i \in 0 .. MaxLines : handleToggleProblem(i) => IdSeq(lines') = IdSeq(lines)
    /\ \A i \in 0 .. MaxLines : handleEnterPress(i) => RemoveAt(IdSeq(lines'), i + 1) = IdSeq(lines)
    /\ \A i \in 0 .. MaxLines :
          handleDeleteLine(i) /\ Len(lines) > 1 => IdSeq(lines') = RemoveAt(IdSeq(lines), i)
    /\ \A d \in ImportFiles :
          importJSON(d) /\ ~ImportRejected(d) =>
              IdSeq(lines') = [k \in 1 .. Len(d.lines.v) |-> d.lines.v[k].id.v]

\* C3: in every reachable state no two lines have the same id, and no
\* operation changes the id of a line that stays in the document.
C3_UniqueStableIds == [](UniqueIds) /\ [][StableIds]_vars

\* C4: in every reachable state every key of the feedback map is the id of a
\* line currently in the document.
C4_FeedbackKeysAreLines == DOMAIN feedbackMap \subseteq Ids(lines)

\* C5: in every reachable state no feedback entry is keyed to a line whose
\* isProblem flag is true.
C5_NoFeedbackOnProblemLine ==
    \A k \in 1 .. Len(lines) : lines[k].isProblem => lines[k].id \notin DOMAIN feedbackMap

IsBreak(ls, i) == At(ls, i).mode = "break"

\* C6: for every document and every index i of a line that is not a break,
\* getSectionBounds(i) returns (start, end) with start <= i < end, no break at
\* an index in [start, end), and the range maximal: start is 0 or the line at
\* start - 1 is a break, end is the document length or the line at end is a
\* break.
C6_SectionBounds ==
    (lastOp.name = "getSectionBounds" /\ ~IsBreak(lines, lastOp.index)) =>
        /\ bounds.start <= lastOp.index
        /\ lastOp.index < bounds.end
        /\ bounds.start >= 0
        /\ bounds.end <= Len(lines)
        /\ \A k \in bounds.start .. bounds.end - 1 : ~IsBreak(lines, k)
        /\ bounds.start = 0 \/ IsBreak(lines, bounds.start - 1)
        /\ bounds.end = Len(lines) \/ IsBreak(lines, bounds.end)

\* bounds were computed for a line that has a break on either side
C6_Witness ==
    /\ lastOp.name = "getSectionBounds"
    /\ ~IsBreak(lines, lastOp.index)
    /\ bounds.start > 0
    /\ bounds.end < Len(lines)

\* index after the nearest break before u, 0 when there is none
SliceStart(ls, u) ==
    LET breaks == {k \in 0 .. u : IsBreak(ls, k)}
    IN  IF breaks = {} THEN 0 ELSE (CHOOSE k \in breaks : \A j \in breaks : j <= k) + 1

\* the n-th smallest element of a set of indices
Nth(S, n) == CHOOSE x \in S : Cardinality({y \in S : y < x}) = n - 1

\* C7: for every document and every non-break index u, problemLines is exactly
\* the lines at indices in [sectionStart, u] with isProblem true, userLines is
\* exactly the lines of that slice with isProblem false and kind not header or
\* break (each with its line id), both in document order, nothing reordered,
\* nothing dropped and nothing added.
C7_SectionLines ==
    (lastOp.name = "getSectionLines" /\ ~IsBreak(lines, lastOp.index)) =>
        LET u == lastOp.index
            P == {k \in SliceStart(lines, u) .. u : At(lines, k).isProblem}
            W == {k \in SliceStart(lines, u) .. u :
                     /\ ~At(lines, k).isProblem
                     /\ At(lines, k).mode \notin {"header", "break"}}
        IN  /\ Len(section.problemLines) = Cardinality(P)
            /\ \A n \in 1 .. Cardinality(P) :
                  /\ section.problemLines[n].mode = At(lines, Nth(P, n)).mode
                  /\ section.problemLines[n].content = At(lines, Nth(P, n)).content
            /\ Len(section.userLines) = Cardinality(W)
            /\ \A n \in 1 .. Cardinality(W) :
                  /\ section.userLines[n].mode = At(lines, Nth(W, n)).mode
                  /\ section.userLines[n].content = At(lines, Nth(W, n)).content
                  /\ section.userLines[n].lineId = At(lines, Nth(W, n)).id

\* the context of a line was extracted with a break before it and a line of
\* its own section after it, and both lists are non-empty
C7_Witness ==
    /\ lastOp.name = "getSectionLines"
    /\ ~IsBreak(lines, lastOp.index)
    /\ section.sectionStart > 0
    /\ lastOp.index + 1 < section.sectionEnd
    /\ Len(section.userLines) > 0

\* C8: a header or break line is never part of the extracted context: for
\* every reachable document and every index u, neither problemLines nor
\* userLines of getSectionLines(u) holds a header or break line.
C8_NoHeaderOrBreakInContext ==
    \A u \in 0 .. Len(lines) - 1 :
        LET sec == getSectionLines(lines, hintMap, feedbackMap, u)
        IN  /\ \A n \in 1 .. Len(sec.problemLines) :
                  sec.problemLines[n].mode \notin {"header", "break"}
            /\ \A n \in 1 .. Len(sec.userLines) :
                  sec.userLines[n].mode \notin {"header", "break"}

\* ids the issues of a response name through the captured work lines
IssueTargets(call, data) ==
    {call.userLineIds[data.issues[j].stepIndex] :
        j \in {j \in 1 .. Len(data.issues) :
                  /\ data.issues[j].stepIndex >= 1
                  /\ data.issues[j].stepIndex <= Len(call.userLineIds)}}

\* the message of the last issue of the response whose step names the line id:
\* the issues are written in list order, a later one replaces an earlier one
LastMessage(call, data, id) ==
    LET js == {j \in 1 .. Len(data.issues) :
                  /\ data.issues[j].stepIndex >= 1
                  /\ data.issues[j].stepIndex <= Len(call.userLineIds)
                  /\ call.userLineIds[data.issues[j].stepIndex] = id}
    IN  data.issues[CHOOSE j \in js : \A i \in js : i <= j].latex

\* m and n hold the same entry, or both none, for id
SameEntry(m, n, id) ==
    (id \in DOMAIN m <=> id \in DOMAIN n) /\ (id \in DOMAIN m => m[id] = n[id])

\* C9: when a response with status issue and an issues list is applied, every
\* issue with 1 <= stepIndex <= length(userLines) leaves a feedback entry with
\* status issue on the line id userLines[stepIndex-1].lineId captured when the
\* check started, carrying that issue's message (the message of the last such
\* issue when several issues name one line), and no entry is written on any
\* other line id.
C9_IssuesMappedToCapturedLines ==
    [][\A k \in 1 .. MaxPending, d \in IssueData :
          (CheckResponse(k, d) /\ Len(d.issues) > 0) =>
              LET call == pendingChecks[k]
              IN  /\ \A j \in 1 .. Len(d.issues) :
                        LET step == d.issues[j].stepIndex
                        IN  (step >= 1 /\ step <= Len(call.userLineIds)) =>
                                /\ call.userLineIds[step] \in DOMAIN feedbackMap'
                                /\ feedbackMap'[call.userLineIds[step]]
                                       = Feedback("issue", LastMessage(call, d, call.userLineIds[step]))
                  /\ \A id \in DOMAIN feedbackMap' :
                        id \notin IssueTargets(call, d) => SameEntry(feedbackMap', feedbackMap, id)]_vars

\* a response naming two steps was applied: the two messages sit on two lines
C9_Witness ==
    /\ lastOp.name = "checkResponse"
    /\ \E a, b \in Ids(lines) :
          /\ a # b
          /\ a \in DOMAIN feedbackMap
          /\ b \in DOMAIN feedbackMap
          /\ feedbackMap[a] = Feedback("issue", "m1")
          /\ feedbackMap[b] = Feedback("issue", "m2")

\* ids the response writes an entry on
Written(call, data) ==
    IF data.status = "ok" THEN {call.targetId}
    ELSE IF Len(data.issues) > 0 THEN IssueTargets(call, data)
    ELSE {}

\* ids of the lines that share a section with the line at index i
SectionIds(ls, i) ==
    {At(ls, k).id : k \in {k \in 0 .. Len(ls) - 1 :
        \A j \in (IF k < i THEN k ELSE i) .. (IF k < i THEN i ELSE k) : ~IsBreak(ls, j)}}

\* C10, as claimed: after a successful response is applied the only feedback
\* entries on lines of the target line's section (as the document is then) are
\* the ones the response wrote, and entries on lines of other sections are
\* unchanged.
C10_SectionAtResponse ==
    [][\A k \in 1 .. MaxPending, d \in CheckData :
          CheckResponse(k, d) =>
              LET call == pendingChecks[k]
              IN  \A i \in 0 .. Len(lines) - 1 :
                      (At(lines, i).id = call.targetId /\ ~IsBreak(lines, i)) =>
                          /\ \A id \in SectionIds(lines, i) \cap DOMAIN feedbackMap' :
                                id \in Written(call, d)
                          /\ \A id \in Ids(lines) \ SectionIds(lines, i) :
                                SameEntry(feedbackMap', feedbackMap, id)]_vars

\* ids of the lines of the target's section when the check was started
CapturedSectionIds(call) ==
    {At(call.lineIds, k) : k \in call.sectionStart .. call.sectionEnd - 1}

\* C10, amended: after a successful response is applied the only feedback
\* entries keyed to lines that were in the target line's section when the
\* check was started are the ones the response wrote, and the entry of every
\* other id is unchanged.
C10_SectionAtStart ==
    [][\A k \in 1 .. MaxPending, d \in CheckData :
          CheckResponse(k, d) =>
              LET call == pendingChecks[k]
              IN  /\ Written(call, d) \subseteq CapturedSectionIds(call)
                  /\ \A id \in CapturedSectionIds(call) \cap DOMAIN feedbackMap' :
                        id \in Written(call, d)
                  /\ \A id \in (DOMAIN feedbackMap \cup DOMAIN feedbackMap') \ CapturedSectionIds(call) :
                        SameEntry(feedbackMap', feedbackMap, id)]_vars

\* a response was applied while a line of another section carries feedback:
\* the target's section holds one entry, the other section kept its own
C10_Witness ==
    /\ lastOp.name = "checkResponse"
    /\ \E i, j \in 0 .. Len(lines) - 1 :
          /\ ~IsBreak(lines, i)
          /\ ~IsBreak(lines, j)
          /\ At(lines, j).id \notin SectionIds(lines, i)
          /\ At(lines, i).id \in DOMAIN feedbackMap
          /\ At(lines, j).id \in DOMAIN feedbackMap

\* C11: when the response of a check or of a hint call is applied, no feedback
\* entry and no hint entry is written for an id that is the id of no line of
\* the document at that moment (the line was deleted while the call was
\* outstanding).
C11_NothingWrittenForDeletedLine ==
    [][/\ \A k \in 1 .. MaxPending, d \in CheckData :
             CheckResponse(k, d) =>
                 \A id \in DOMAIN feedbackMap' \ Ids(lines) :
                     SameEntry(feedbackMap', feedbackMap, id)
       /\ \A k \in 1 .. MaxPending, h \in Hints :
             HintResponse(k, h) =>
                 \A id \in DOMAIN hintMap' \ Ids(lines) :
                     SameEntry(hintMap', hintMap, id)]_vars

\* C12: a check response is applied by the ids captured when the check
\* started: an ok verdict is the entry of the id of the line that was clicked,
\* every issue whose step k is in range leaves an issue entry on the id of the
\* line that was the k-th work line at call start, and no entry is written on
\* any other id, whichever lines occupy those indices when the response
\* arrives.
C12_AppliedByCapturedIds ==
    [][\A k \in 1 .. MaxPending, d \in CheckData :
          CheckResponse(k, d) =>
              LET call == pendingChecks[k]
              IN  /\ d.status = "ok" =>
                        /\ call.targetId \in DOMAIN feedbackMap'
                        /\ feedbackMap'[call.targetId] = Feedback("ok", d.latex)
                  /\ d.status = "issue" =>
                        \A id \in IssueTargets(call, d) :
                            /\ id \in DOMAIN feedbackMap'
                            /\ feedbackMap'[id].status = "issue"
                  /\ \A id \in DOMAIN feedbackMap' \ Written(call, d) :
                        SameEntry(feedbackMap', feedbackMap, id)]_vars

\* the first of two outstanding checks was answered after the document had
\* changed: the check still outstanding was started later and captured lines
\* that are not the lines of the document now, and the response left an entry
C12_Witness ==
    /\ lastOp.name = "checkResponse"
    /\ lastOp.index = 1
    /\ Len(pendingChecks) >= 1
    /\ pendingChecks[1].lineIds # IdSeq(lines)
    /\ DOMAIN feedbackMap # {}

\* C13: toggling the problem flag of the line at an index flips that line's
\* isProblem and nothing else of the line, removes the feedback entry keyed to
\* that line's id, and leaves every other feedback entry, the whole hint map
\* and every other line unchanged.
C13_ToggleFrame ==
    [][\A i \in 0 .. MaxLines :
          handleToggleProblem(i) =>
              LET id == At(lines, i).id
              IN  /\ Len(lines') = Len(lines)
                  /\ At(lines', i) = [At(lines, i) EXCEPT !.isProblem = ~At(lines, i).isProblem]
                  /\ \A j \in Indices(lines) \ {i} : At(lines', j) = At(lines, j)
                  /\ id \notin DOMAIN feedbackMap'
                  /\ \A other \in (DOMAIN feedbackMap \cup DOMAIN feedbackMap') \ {id} :
                        SameEntry(feedbackMap', feedbackMap, other)
                  /\ hintMap' = hintMap]_vars

\* a line that carried feedback was toggled once while another feedback entry
\* and a hint entry were there, and both are still there
C13_Witness ==
    /\ lastOp.name = "handleToggleProblem"
    /\ toggleRun.count = 1
    /\ At(lines, toggleRun.index).id \in DOMAIN toggleRun.feedback
    /\ DOMAIN feedbackMap # {}
    /\ DOMAIN hintMap # {}

\* C14: after two toggles in a row of the same line, whatever the document,
\* the feedback map and the index, the line's isProblem is what it was before
\* the first toggle and the feedback map is the map before the first toggle
\* minus the entry keyed to that line.
C14_ToggleTwice ==
    toggleRun.count = 2 =>
        /\ At(lines, toggleRun.index).isProblem = toggleRun.isProblem
        /\ feedbackMap = MapDelete(toggleRun.feedback, At(lines, toggleRun.index).id)

\* a line that carried feedback was toggled twice in a row and another
\* feedback entry is still there
C14_Witness ==
    /\ toggleRun.count = 2
    /\ At(lines, toggleRun.index).id \in DOMAIN toggleRun.feedback
    /\ DOMAIN feedbackMap # {}

\* C15: whatever the state before it, and whichever line of the file is the
\* first invalid one, after a rejected import the document is exactly one
\* empty text line with isProblem false and the hint map and the feedback map
\* are both empty.
C15_RejectedImportResets ==
    [][\A d \in ImportFiles :
          (importJSON(d) /\ ImportRejected(d)) =>
              /\ Len(lines') = 1
              /\ IsEmptyTextLine(lines'[1])
              /\ hintMap' = EmptyMap
              /\ feedbackMap' = EmptyMap]_vars

\* an import was rejected when the document had more than one line
C15_Witness ==
    /\ importedFile # NoFile
    /\ importedFile.lines.t = "array"
    /\ Len(importedFile.lines.v) = 2
    /\ lastOp.index = -1
    /\ lastOp.len > 1
    /\ Len(lines) = 1

\* the last handler was importJSON and it fell back to the single empty line,
\* whose id generateId made
Rejected == Len(lines) = 1 /\ lines[1].id = generateId(nextId - 1)

\* the value of "lines" is missing, not a list or an empty list
NoLines(d) == d.lines.t # "array" \/ Len(d.lines.v) = 0
ModeKnown(line) ==
    line.mode.t = "string" /\ line.mode.v \in {"math", "text", "header", "image", "break"}

\* the document is the lines of the file in order, isProblem false where absent
ReplacedBy(d) ==
    /\ Len(lines) = Len(d.lines.v)
    /\ \A k \in 1 .. Len(d.lines.v) :
          /\ lines[k].id = d.lines.v[k].id.v
          /\ lines[k].content = d.lines.v[k].content.v
          /\ lines[k].mode = d.lines.v[k].mode.v
          /\ d.lines.v[k].isProblem.t = "undefined" => ~lines[k].isProblem
          /\ d.lines.v[k].isProblem.t = "boolean" =>
                lines[k].isProblem = d.lines.v[k].isProblem.v

\* C16, as claimed: importJSON rejects the file exactly when lines is missing,
\* not a list or empty, or some line lacks a string id, lacks a string content
\* or has a mode outside the five known ones; an accepted import replaces the
\* document by the lines of the file.
C16_RejectsExactlyWhen ==
    importedFile # NoFile =>
        LET d == importedFile
            bad == \/ NoLines(d)
                   \/ \E k \in 1 .. Len(d.lines.v) :
                         \/ d.lines.v[k].id.t # "string"
                         \/ d.lines.v[k].content.t # "string"
                         \/ ~ModeKnown(d.lines.v[k])
        IN  /\ Rejected <=> bad
            /\ ~bad => ReplacedBy(d)

\* C16, amended: importJSON rejects the file exactly when lines is missing,
\* not a list or empty, or some line lacks a non-empty string id, lacks a
\* string content or has a mode outside the five known ones; an accepted
\* import replaces the document by the lines of the file in order, with the
\* same ids, contents and modes, and isProblem false where it is absent.
C16_RejectsExactlyWhenNoNonEmptyId ==
    importedFile # NoFile =>
        LET d == importedFile
            bad == \/ NoLines(d)
                   \/ \E k \in 1 .. Len(d.lines.v) :
                         \/ d.lines.v[k].id.t # "string"
                         \/ d.lines.v[k].id.v = ""
                         \/ d.lines.v[k].content.t # "string"
                         \/ ~ModeKnown(d.lines.v[k])
        IN  /\ Rejected <=> bad
            /\ ~bad => ReplacedBy(d)

\* a file of two lines with different ids was accepted, the second an image
\* line without isProblem
C16_Witness ==
    /\ importedFile # NoFile
    /\ ~Rejected
    /\ Len(lines) = 2
    /\ lines[1].id # lines[2].id
    /\ lines[2].mode = "image"
    /\ importedFile.lines.v[2].isProblem.t = "undefined"

EmptyWork(body) ==
    body.parses /\ body.problemLines.t = "array" /\ body.userLines = JArray(<<>>)

\* C18: when no credential is configured, the check-reasoning route and the
\* hint route answer with an error and do not call the external service,
\* whatever the request body is.
C18_NoCredentialNoCall ==
    (served.route # "none" /\ ~served.apiKey) =>
        /\ served.response.status = 500
        /\ served.response.error # ""
        /\ ~served.response.called

\* the hint route was given, without a credential, a body it forwards when
\* the credential is there
C18_Witness ==
    /\ served.route = "hint"
    /\ ~served.apiKey
    /\ served.body.parses
    /\ served.body.problemLines.t = "array"
    /\ served.body.userLines.t = "array"
    /\ Len(served.body.userLines.v) > 0

\* C19: a check with an empty list of work lines never reaches the external
\* service: the check-reasoning route does not call it and answers with an
\* error, the invalid-request error 400 when the credential is set; the client
\* handler, run on a line whose section has no work line up to it, makes no
\* request and leaves the feedback map unchanged; the hint route given an
\* empty list of work lines does not answer 400 and calls the service, and
\* handleGetHint sends its request.
C19_EmptyWorkLines ==
    /\ []((served.route = "check-reasoning" /\ served.body.parses
              /\ served.body.userLines = JArray(<<>>)) =>
            /\ ~served.response.called
            /\ served.response.status >= 400
            /\ (served.apiKey /\ EmptyWork(served.body)) => served.response.status = 400)
    /\ []((served.route = "hint" /\ served.apiKey /\ EmptyWork(served.body)) =>
            /\ served.response.called
            /\ served.response.status # 400)
    /\ [][/\ \A i \in 0 .. MaxLines :
                (/\ handleCheckReasoning(i)
                 /\ getSectionLines(lines, hintMap, feedbackMap, i).userLines = <<>>) =>
                    /\ pendingChecks' = pendingChecks
                    /\ feedbackMap' = feedbackMap
          /\ \A i \in 0 .. MaxLines :
                handleGetHint(i) => Len(pendingHints') = Len(pendingHints) + 1]_vars

\* handleGetHint sent a request that lists no work line, the check-reasoning
\* route was given an empty list with the credential set, and
\* handleCheckReasoning then ran without making a request
C19_Witness ==
    /\ lastOp.name = "handleCheckReasoning"
    /\ pendingChecks = <<>>
    /\ served.route = "check-reasoning"
    /\ served.apiKey
    /\ EmptyWork(served.body)
    /\ Len(pendingHints) > 0
    /\ pendingHints[1].userLines = <<>>

\* C20: every successful result of the check-reasoning route is status ok, or
\* status issue carrying an issues list; an answer of the model in the older
\* shape (status issue, a stepIndex and a message, no issues list) is returned
\* with issues the one-element list of that stepIndex and message; an answer
\* whose status is neither ok nor issue is returned as an error.
C20_NormalizedResult ==
    (served.route = "check-reasoning" /\ served.answer.kind = "object") =>
        LET answer == served.answer.parsed
            response == served.response
        IN  /\ response.status = 200 =>
                  \/ response.data.status.v = "ok"
                  \/ response.data.status.v = "issue" /\ response.data.issues.t = "array"
            /\ (/\ answer.status.v = "issue"
                /\ answer.issues.t = "undefined"
                /\ answer.stepIndex.t = "number") =>
                  /\ response.status = 200
                  /\ response.data.issues = JArray(<<Issue(answer.stepIndex.v, answer.latex.v)>>)
            /\ answer.status.v \notin {"ok", "issue"} =>
                  response.status >= 400 /\ response.error # ""

\* C21: if every fetch settles, every reasoning check that was started ends
\* with no check outstanding and the checking marker reset, and every hint
\* lookup that was started ends with no lookup outstanding and the
\* hint-loading marker reset, whether the call answered or failed
C21_CallsEndIdle ==
    /\ (pendingChecks # <<>>) ~> (pendingChecks = <<>> /\ checkingLineId = NoId)
    /\ (pendingHints # <<>>) ~> (pendingHints = <<>> /\ loadingHintLineId = NoId)
    /\ [](pendingChecks = <<>> => checkingLineId = NoId)
    /\ [](pendingHints = <<>> => loadingHintLineId = NoId)
C21_Witness ==
    /\ lastOp.name = "checkFailed"
    /\ pendingChecks = <<>>
    /\ checkingLineId = NoId
    /\ hintMap # EmptyMap

\* C22: a check or a hint lookup that fails (non-OK response, or the call
\* throws) changes neither the lines nor the feedback map nor the hint map,
\* and neither does starting the call: after the failure the three are what
\* they were before the call was started, apart from what other handlers did
\* in between; the feedback of the section is still there.
C22_FailureCommitsNothing ==
    [][/\ \A k \in 1 .. MaxPending :
             CheckFailed(k) \/ HintFailed(k) =>
                 lines' = lines /\ feedbackMap' = feedbackMap /\ hintMap' = hintMap
       /\ \A i \in 0 .. MaxLines :
             handleCheckReasoning(i) \/ handleGetHint(i) =>
                 lines' = lines /\ feedbackMap' = feedbackMap /\ hintMap' = hintMap]_vars
\* a check of the line that carries feedback failed, and the feedback is there
C22_Witness ==
    /\ lastOp.name = "checkFailed"
    /\ \E k \in 1 .. Len(lines) : lines[k].id \in DOMAIN feedbackMap
    /\ pendingChecks = <<>>

RECURSIVE Flatten(_)
\* the text segments and the images of the parts, in the order the external
\* service reads them
Flatten(parts) ==
    IF parts = <<>> THEN <<>>
    ELSE (IF Head(parts).type = "text"
          THEN Head(parts).text
          ELSE <<Seg("image", 0, Head(parts).url)>>) \o Flatten(Tail(parts))
\* the positions of the step labels in what the service reads
LabelAt(read) == {p \in 1 .. Len(read) : read[p].kind \in {"step", "label"}}
\* what the label at position p is put in front of
Labelled(read, p) ==
    IF read[p].kind = "step" THEN read[p].body
    ELSE IF p < Len(read) /\ read[p + 1].kind = "image" THEN read[p + 1].body
    ELSE <<"nothing">>
\* what the service is shown of a work line
Shown(line) ==
    IF line.mode = "image" /\ IsDataImage(line.content) THEN line.content
    ELSE formatLineContent(line)

\* C23: in the message built for a check request, every step number k from 1
\* to the number of work lines appears as a label exactly once, in increasing
\* order, for image and non-image lines alike, and what the label k is put in
\* front of is the work line userLines[k-1], the line whose id the client
\* takes for a returned stepIndex k.
C23_StepLabelsMatchUserLines ==
    prompt # NoPrompt =>
        LET read == Flatten(prompt.parts)
            n == Len(prompt.userLines)
            call == CheckCall(lines, lastOp.index, section)
        IN  /\ Cardinality(LabelAt(read)) = n
            /\ \A p, q \in LabelAt(read) : p < q => read[p].step < read[q].step
            /\ \A k \in 1 .. n :
                  \E p \in LabelAt(read) :
                      /\ read[p].step = k
                      /\ Labelled(read, p) = Shown(prompt.userLines[k])
                      /\ \E j \in 1 .. Len(lines) :
                            /\ lines[j].id = call.userLineIds[k]
                            /\ Labelled(read, p) = Shown(lines[j])
\* a message for three work lines, an image between two text lines
C23_Witness ==
    /\ prompt # NoPrompt
    /\ Len(prompt.userLines) = 3
    /\ prompt.userLines[2].mode = "image"
    /\ IsDataImage(prompt.userLines[2].content)
    /\ prompt.userLines[3].mode = "math"

\* C24: no step of a hint lookup (start, response, failure) changes the
\* feedback map, the checking marker or an outstanding check, and no step of a
\* reasoning check changes the hint map, the hint-loading marker or an
\* outstanding hint lookup; so in every interleaving of a check and a hint
\* lookup each map ends as it does when the two run one after the other.
C24_CheckAndHintIndependent ==
    [][/\ (\/ \E i \in 0 .. MaxLines : handleGetHint(i)
           \/ \E k \in 1 .. MaxPending, h \in Hints : HintResponse(k, h)
           \/ \E k \in 1 .. MaxPending : HintFailed(k))
          => UNCHANGED <<feedbackMap, checkingLineId, pendingChecks, lines>>
       /\ (\/ \E i \in 0 .. MaxLines : handleCheckReasoning(i)
           \/ \E k \in 1 .. MaxPending, d \in CheckData : CheckResponse(k, d)
           \/ \E k \in 1 .. MaxPending : CheckFailed(k))
          => UNCHANGED <<hintMap, loadingHintLineId, pendingHints, lines>>]_vars
\* the hint of one line arrived while the check of another line, which has
\* feedback from an earlier check, is outstanding
C24_Witness ==
    /\ lastOp.name = "hintResponse"
    /\ Len(pendingChecks) = 1
    /\ pendingChecks[1].targetId \notin DOMAIN hintMap
    /\ DOMAIN hintMap # {}
    /\ DOMAIN feedbackMap # {}

C25_WitnessMinimal ==
    /\ minimal
    /\ lastOp.name = "hintResponse"
    /\ DOMAIN hintMap # {}
    /\ storage = SavedSnapshot

\* C26: in every reachable state every key of the hint map is the id of a
\* line currently in the document.
C26_HintKeysAreLines == DOMAIN hintMap \subseteq Ids(lines)

HasSavedDocument(item) == item.lines.t = "array" /\ Len(item.lines.v) > 0

\* C28: when a template slug is given and loading the template fails (the
\* fetch fails or answers non-OK, or the template has no lines), the notebook
\* shows the document saved in local storage if there is one, with its hints
\* and feedback, and the initial lines otherwise, and a saved document is
\* still in local storage afterwards.
C28_TemplateFailureFallsBack ==
    [][TemplateFailed \/ TemplateLoaded(<<>>) =>
          IF HasSavedDocument(storage)
          THEN /\ lines' = ValidatedLines(storage.lines.v)
               /\ hintMap' = RestoreMap(storage.hints)
               /\ feedbackMap' = RestoreMap(storage.feedback)
               /\ HasSavedDocument(storage')
               /\ storage'.lines.v # exportJSON(lines, hintMap, feedbackMap).lines.v
          ELSE lines' = lines]_vars

\* C29: while the check of a line is outstanding the checking marker is the
\* id of that line, whatever other checks start or finish in the meantime;
\* and while the hint lookup of a line is outstanding the hint-loading marker
\* is the id of that line.
C29_MarkerWhileOutstanding ==
    /\ \A k \in 1 .. Len(pendingChecks) : checkingLineId = pendingChecks[k].targetId
    /\ \A k \in 1 .. Len(pendingHints) : loadingHintLineId = pendingHints[k].targetId

\* C30: when the read of an image file chosen for a line completes, the data
\* URL becomes the content of the line that has the id of that line, wherever
\* it is now; the content of no other line changes, no line is added, and no
\* line without an id appears.
C30_ImageStoredOnItsLine ==
    [][\A k \in 1 .. MaxPending :
          ImageRead(k) =>
              /\ Len(lines') = Len(lines)
              /\ \A j \in 1 .. Len(lines') : lines'[j].id # "undefined"
              /\ \A j \in 1 .. Len(lines) :
                    lines'[j] = IF lines[j].id = pendingReads[k].lineId
                                THEN [lines[j] EXCEPT !.content = DataUrl]
                                ELSE lines[j]]_vars

====
